---- MODULE Spec2Model ----
(***************************************************************************)
(* The statement executor of crates/core/src/dbs/executor.rs as a state    *)
(* machine.  One step of the machine is one item pulled from the statement *)
(* stream (`stream.next().await`) together with everything the executor    *)
(* does with it before it pulls the next one.                              *)
(*                                                                         *)
(* The n-th item of the stream is identified by its position n: the value  *)
(* a successful statement computes is n, the error it raises is error n,   *)
(* and the mutation a writeable statement makes is mutation n.             *)
(***************************************************************************)
EXTENDS Integers, Sequences, FiniteSets, TLC

\* The stream yields at most MaxStream items before it ends.
MaxStream == 5

\* At most MaxFaults statements and collaborator calls fail in one run: a
\* computation that ends with an error, Break or Continue, a shared Context, a
\* statement that cannot be planned, a storage error, a parse error, a
\* deadline or cancel token that trips.
MaxFaults == 1

\* At most MaxBare statements of one run are executed outside a transaction block.
MaxBare == 1

VARIABLES
    pc,             \* where the executor is: "top", "block", a fast-forward loop, "done", "failed"
    consumed,       \* number of items pulled from the stream so far
    stmt,           \* the item pulled last (the local `stmt`)
    results,        \* Executor::results
    opt,            \* Executor::opt
    ctx,            \* Executor::ctx: the session value, the parameters, the notification flag
    reason,         \* what ctx.done(true) answers: "None", "Timedout" or "Canceled"
    txn,            \* the transaction of the current (or last) block
    adhoc,          \* the transaction of the last ad-hoc statement
    store,          \* the mutations visible in the datastore
    start_results,  \* the local start_results of execute_begin_statement
    skip_remaining, \* the local skip_remaining of execute_begin_statement
    done,           \* the local `done` of the cancellation branch
    skip_success_results, \* the argument of execute_stream
    returned,       \* the Err execute_stream returned ("" when none)
    blocks,         \* history: for each block, its range of results and its fate
    source,         \* the items the stream is made of in this run
    faults,         \* history: how many statements and collaborator calls failed so far
    bare,           \* history: how many bare statements ran at top level so far
    plan_res,       \* what the latest computation of a plan ended with (the local `res`)
    iter,           \* the Iterator (`self` of the methods of dbs/iterator.rs)
    stm,            \* the Statement the Iterator works for
    qp,             \* what the query planner of the Context answers
    ipc,            \* where the call of Iterator::prepare / Iterator::output stands
    scan,           \* the records the storage still holds for the ingested iterables
    output,         \* what Iterator::prepare or Iterator::output returned
    steps,          \* history: the stages and the post-processing steps Iterator::output ran, in order
    self,           \* the Value that pick and inc are called on
    path,           \* the path (a sequence of Part) of the call
    vals,           \* the `val` arguments of the calls of inc, in order
    picked,         \* what the call of pick returned
    vpc,            \* the calls of pick and inc made so far
    before,         \* history: the Value before the first call
    drains,         \* the spawned tasks that forward notifications, with what each has left
    sink            \* the notification sink of the Context and what it received

\* The variables of the executor and those of the iterator
execVars == <<pc, consumed, stmt, results, opt, ctx, reason, txn, adhoc, store,
              start_results, skip_remaining, done, skip_success_results, returned, blocks,
              source, faults, bare, plan_res>>

iterVars == <<iter, stm, qp, ipc, scan, output, steps>>

\* The variables of the path primitives of expr/value
valueVars == <<self, path, vals, picked, vpc, before>>

\* The variables of the notification drains
notifVars == <<drains, sink>>

vars == <<pc, consumed, stmt, results, opt, ctx, reason, txn, adhoc, store,
          start_results, skip_remaining, done, skip_success_results, returned, blocks,
          source, faults, bare, plan_res, iter, stm, qp, ipc, scan, output, steps,
          self, path, vals, picked, vpc, before, drains, sink>>

-----------------------------------------------------------------------------
(* Values, errors and responses *)

\* Value::None
ValueNone == 0

\* QueryType
QueryTypes == {"Live", "Kill", "Other"}

\* Error kinds (crate::err::Error variants and the foreign errors the executor forwards)
BeginMessage == "Tried to start a transaction while another transaction was open"
MissingCommitMessage == "Missing COMMIT statement"
UnfreezeMessage == "Tried to unfreeze a Context with multiple references"
PermissionMessage == "Not enough permissions to perform this action"

Error(kind, message, at) == [kind |-> kind, message |-> message, at |-> at]

QueryNotExecuted == Error("QueryNotExecuted", "", 0)
QueryCancelled == Error("QueryCancelled", "", 0)
QueryTimedout == Error("QueryTimedout", "", 0)
InvalidControlFlow == Error("InvalidControlFlow", "", 0)
QueryNotExecutedDetail(message) == Error("QueryNotExecutedDetail", message, 0)
Unreachable == Error("Unreachable", UnfreezeMessage, 0)
NoError == Error("", "", 0)

\* Result<Value>
Ok(v) == [ok |-> TRUE, val |-> v, err |-> NoError]
Err(e) == [ok |-> FALSE, val |-> ValueNone, err |-> e]

\* Response { time, result, query_type }
Response(time, result, query_type) ==
    [time |-> time, result |-> result, query_type |-> query_type]

-----------------------------------------------------------------------------
(* The statement stream *)

\* The option names the stream may carry, as sequences of ASCII characters.
OptionNames ==
    { <<"i","m","p","o","r","t">>, <<"F","O","R","C","E">>,
      <<"F","u","t","u","r","e","s">>, <<"s","t","r","i","c","t">> }

\* Statement, reduced to what the executor looks at.
Stmt(k) == [k |-> k, name |-> <<>>, what |-> FALSE, ns |-> "", db |-> "", writeable |-> FALSE]

ParseError == Stmt("ParseError")

\* USE NS, USE DB, USE NS DB ("" stands for None)
UseTargets == {<<"OTHER_NS", "">>, <<"", "OTHER_DB">>, <<"OTHER_NS", "OTHER_DB">>}

PlanKinds == {"Output", "Live", "Kill", "Data", "Set"}

\* Everything stream.next() can yield besides the end of the stream:
\* Ok(statement) or Err(parse error).
Items ==
    {Stmt("Begin"), Stmt("Cancel"), Stmt("Commit"), ParseError}
    \cup {[Stmt("Option") EXCEPT !.name = n, !.what = w] : n \in OptionNames, w \in BOOLEAN}
    \cup {[Stmt("Use") EXCEPT !.ns = u[1], !.db = u[2]] : u \in UseTargets}
    \cup {[Stmt(k) EXCEPT !.writeable = w] : k \in PlanKinds, w \in BOOLEAN}

IsCancelOrCommit(s) == s.k \in {"Cancel", "Commit"}

\* The error of the n-th stream item when it is a parse error.
ParseErrorAt(n) == Error("Parse", "", n)
\* The error statement_to_logical reports for the n-th statement.
PlanErrorAt(n) == Error("Plan", "", n)
\* The error the computation of the n-th statement raises.
ThrownAt(n) == Error("Thrown", "", n)

\* QueryType of a statement
query_type_of(s) ==
    CASE s.k = "Live" -> "Live"
      [] s.k = "Kill" -> "Kill"
      [] OTHER -> "Other"

-----------------------------------------------------------------------------
(* Context::done and the transaction handle: the executor's collaborators *)

Reasons == {"None", "Timedout", "Canceled"}


ReasonError(r) == IF r = "Timedout" THEN QueryTimedout ELSE QueryCancelled

NoTransaction == [write |-> FALSE, state |-> "none", writes |-> {}, calls |-> <<>>]

\* kvs.transaction(write, Optimistic) when it succeeds
transaction(write) == [write |-> write, state |-> "open", writes |-> {}, calls |-> <<>>]

\* Transaction::cancel; the executor ignores its result
cancel(t) ==
    [t EXCEPT !.state = IF t.state = "open" THEN "cancelled" ELSE @,
              !.calls = Append(@, "cancel")]

\* Transaction::complete_changes(false)
complete_changes(t, ok) ==
    [t EXCEPT !.calls = Append(@, IF ok THEN "complete_changes" ELSE "complete_changes_err")]

\* Transaction::commit
commit(t, ok) ==
    [t EXCEPT !.state = IF ok THEN "committed" ELSE "failed",
              !.calls = Append(@, IF ok THEN "commit" ELSE "commit_err")]

\* The messages of the storage errors
CompleteChangesMessage == "complete_changes failed"
CommitMessage == "commit failed"
TransactionMessage == "transaction failed"

-----------------------------------------------------------------------------
(* Options, USE and OPTION *)

\* The sessions the executor may run under: (role, level) of Options::auth.
\* Level "Namespace" is Level::Namespace("NS"), "Database" is Level::Database("NS", "DB").
Auths ==
    { [role |-> "Owner", level |-> "Root"],
      [role |-> "Viewer", level |-> "Root"],
      [role |-> "Owner", level |-> "Database"] }

\* Options::is_allowed(Action::Edit, ResourceKind::Option, &Base::Db)
is_allowed(o) ==
    /\ o.auth.role \in {"Owner", "Editor"}
    /\ \/ o.auth.level = "Root"
       \/ o.auth.level = "Namespace" /\ o.ns = "NS"
       \/ o.auth.level = "Database" /\ o.ns = "NS" /\ o.db = "DB"

NotAllowed == Error("NotAllowed", PermissionMessage, 0)

\* u8::to_ascii_uppercase on the letters the option names use
to_ascii_uppercase(c) ==
    CASE c = "i" -> "I" [] c = "m" -> "M" [] c = "p" -> "P" [] c = "o" -> "O"
      [] c = "r" -> "R" [] c = "t" -> "T" [] c = "f" -> "F" [] c = "c" -> "C"
      [] c = "e" -> "E" [] c = "u" -> "U" [] c = "s" -> "S"
      [] OTHER -> c

\* A variant of make_ascii_uppercase that keeps the case of the name
keep_case(name) == name

\* str::make_ascii_uppercase
make_ascii_uppercase(name) == [i \in DOMAIN name |-> to_ascii_uppercase(name[i])]

\* Executor::execute_option_statement: the result and the Options afterwards
execute_option_statement(o, s) ==
    IF ~is_allowed(o)
    THEN [result |-> Err(NotAllowed), opt |-> o]
    ELSE LET name == make_ascii_uppercase(s.name) IN
         [result |-> Ok(ValueNone),
          opt |->
            CASE name = <<"I","M","P","O","R","T">> -> [o EXCEPT !.import = s.what]
              [] name = <<"F","O","R","C","E">> ->
                    [o EXCEPT !.force = IF s.what THEN "All" ELSE "None"]
              [] name = <<"F","U","T","U","R","E","S">> ->
                    [o EXCEPT !.futures = IF s.what THEN "Enabled" ELSE "Never"]
              [] OTHER -> o]

\* A variant of execute_use_statement that sets the Options and leaves the
\* session value of the Context alone
use_options_only(o, c, s, sole) ==
    IF ~sole
    THEN [result |-> Err(Unreachable), opt |-> o, ctx |-> c]
    ELSE LET o1 == IF s.ns # "" THEN [o EXCEPT !.ns = s.ns] ELSE o
             o2 == IF s.db # "" THEN [o1 EXCEPT !.db = s.db] ELSE o1
         IN [result |-> Ok(ValueNone), opt |-> o2, ctx |-> c]

\* Executor::execute_use_statement: the result, the Options and the Context
\* afterwards.  sole: whether Arc::get_mut finds the Context unshared.
execute_use_statement(o, c, s, sole) ==
    IF ~sole
    THEN [result |-> Err(Unreachable), opt |-> o, ctx |-> c]
    ELSE LET o1 == IF s.ns # "" THEN [o EXCEPT !.ns = s.ns] ELSE o
             c1 == IF s.ns # "" THEN [c EXCEPT !.session.ns = s.ns] ELSE c
             o2 == IF s.db # "" THEN [o1 EXCEPT !.db = s.db] ELSE o1
             c2 == IF s.db # "" THEN [c1 EXCEPT !.session.db = s.db] ELSE c1
         IN [result |-> Ok(ValueNone), opt |-> o2, ctx |-> c2]

-----------------------------------------------------------------------------
(* Running a plan *)

\* FlowResult<Value>
FlowOk(v) == [t |-> "Ok", val |-> v, err |-> NoError]
FlowReturn(v) == [t |-> "Return", val |-> v, err |-> NoError]
FlowBreak == [t |-> "Break", val |-> ValueNone, err |-> NoError]
FlowContinue == [t |-> "Continue", val |-> ValueNone, err |-> NoError]
FlowErr(e) == [t |-> "Err", val |-> ValueNone, err |-> e]
NoFlow == [t |-> "", val |-> ValueNone, err |-> NoError]

\* What the computation of the n-th statement can end with
Computed(n) == {FlowOk(n), FlowReturn(n), FlowBreak, FlowContinue, FlowErr(ThrownAt(n))}

\* The ways one call of execute_plan_in_transaction can go, starting with
\* ctx.done() = None:
\*   sole   whether Arc::get_mut finds the Context unshared before the computation
\*   res    what the computation ends with
\*   sole2  whether Arc::get_mut finds the Context unshared when SET binds its value
\*   trip   what ctx.done(true) answers after the computation
\*   cost   the number of failures in it
PlanRuns(s, n) ==
    {[sole |-> FALSE, res |-> NoFlow, sole2 |-> TRUE, trip |-> "None", cost |-> 1]}
    \cup {[sole |-> TRUE, res |-> f, sole2 |-> TRUE, trip |-> "None",
           cost |-> IF f.t \in {"Ok", "Return"} THEN 0 ELSE 1] : f \in Computed(n)}
    \cup {[sole |-> TRUE, res |-> FlowOk(n), sole2 |-> b, trip |-> "None", cost |-> 1] :
            b \in IF s.k = "Set" THEN {FALSE} ELSE {}}
    \cup {[sole |-> TRUE, res |-> f, sole2 |-> TRUE, trip |-> r,
           cost |-> IF f.t \in {"Ok", "Return"} THEN 1 ELSE 2] :
            f \in Computed(n), r \in {"Timedout", "Canceled"}}

\* A variant of execute_plan_in_transaction that returns what the computation
\* ended with, whatever ctx.done answers afterwards
plan_ignores_done(c, t, s, n, run) ==
    IF ~run.sole
    THEN [flow |-> FlowErr(Unreachable), ctx |-> c, txn |-> t, reason |-> "None"]
    ELSE LET t1 == IF s.writeable THEN [t EXCEPT !.writes = @ \cup {n}] ELSE t IN
         IF s.k = "Set" /\ run.res.t = "Ok" /\ ~run.sole2
         THEN [flow |-> FlowErr(Unreachable), ctx |-> c, txn |-> t1, reason |-> "None"]
         ELSE LET res == IF s.k = "Set" /\ run.res.t = "Ok"
                         THEN FlowOk(ValueNone) ELSE run.res
                  c1 == IF s.k = "Set" /\ run.res.t = "Ok"
                        THEN [c EXCEPT !.x = run.res.val] ELSE c
              IN [flow |-> res,
                  ctx |-> c1, txn |-> t1, reason |-> run.trip]

\* Executor::execute_plan_in_transaction for the n-th statement s in
\* transaction t: the FlowResult, and the Context, transaction and done()
\* afterwards.
execute_plan_in_transaction(c, t, s, n, run) ==
    IF ~run.sole
    THEN [flow |-> FlowErr(Unreachable), ctx |-> c, txn |-> t, reason |-> "None"]
    ELSE LET t1 == IF s.writeable THEN [t EXCEPT !.writes = @ \cup {n}] ELSE t IN
         IF s.k = "Set" /\ run.res.t = "Ok" /\ ~run.sole2
         THEN [flow |-> FlowErr(Unreachable), ctx |-> c, txn |-> t1, reason |-> "None"]
         ELSE LET res == IF s.k = "Set" /\ run.res.t = "Ok"
                         THEN FlowOk(ValueNone) ELSE run.res
                  c1 == IF s.k = "Set" /\ run.res.t = "Ok"
                        THEN [c EXCEPT !.x = run.res.val] ELSE c
              IN [flow |-> IF run.trip = "None" THEN res
                           ELSE FlowErr(ReasonError(run.trip)),
                  ctx |-> c1, txn |-> t1, reason |-> run.trip]

\* The ways the datastore can answer an ad-hoc transaction:
\* "tx_err" kvs.transaction fails, "cc_err" complete_changes fails,
\* "commit_err" commit fails, "ok" none of them fails.
KvsRuns == {"ok", "tx_err", "cc_err", "commit_err"}

\* A variant of execute_plan_impl that commits the transaction of a plan that
\* is not writeable too
plan_impl_commits_always(o, c, st, s, n, kv, run) ==
    IF kv = "tx_err"
    THEN [result |-> Err(Error("Transaction", TransactionMessage, 0)),
          opt |-> o, ctx |-> c, reason |-> "None", adhoc |-> NoTransaction, store |-> st,
          res |-> NoFlow, spawn |-> FALSE]
    ELSE
    LET writeable == s.writeable
        receiver == c.notifications
        o1 == IF receiver THEN [o EXCEPT !.sender = TRUE] ELSE o
        r == execute_plan_in_transaction(c, transaction(writeable), s, n, run)
        out(result, o2, t, st2, spawned) ==
            [result |-> result, opt |-> o2, ctx |-> r.ctx,
             reason |-> r.reason, adhoc |-> t, store |-> st2, res |-> run.res,
             spawn |-> spawned]
    IN  CASE r.flow.t \in {"Ok", "Return"} ->
                IF FALSE
                THEN out(Ok(r.flow.val), o1, cancel(r.txn), st, FALSE)
                ELSE IF kv = "cc_err"
                THEN out(Err(QueryNotExecutedDetail(CompleteChangesMessage)), o1,
                         cancel(complete_changes(r.txn, FALSE)), st, FALSE)
                ELSE IF kv = "commit_err"
                THEN out(Err(QueryNotExecutedDetail(CommitMessage)), o1,
                         commit(complete_changes(r.txn, TRUE), FALSE), st, FALSE)
                ELSE out(Ok(r.flow.val),
                         IF receiver THEN [o1 EXCEPT !.sender = FALSE] ELSE o1,
                         commit(complete_changes(r.txn, TRUE), TRUE),
                         st \cup r.txn.writes, receiver)
          [] r.flow.t \in {"Continue", "Break"} ->
                out(Err(InvalidControlFlow), o1, r.txn, st, FALSE)
          [] OTHER ->
                out(Err(r.flow.err), o1, cancel(r.txn), st, FALSE)

\* A variant of execute_plan_impl that reports a leaked Break or Continue as
\* Ok(None)
plan_impl_break_is_ok(o, c, st, s, n, kv, run) ==
    IF kv = "tx_err"
    THEN [result |-> Err(Error("Transaction", TransactionMessage, 0)),
          opt |-> o, ctx |-> c, reason |-> "None", adhoc |-> NoTransaction, store |-> st,
          res |-> NoFlow, spawn |-> FALSE]
    ELSE
    LET writeable == s.writeable
        receiver == c.notifications
        o1 == IF receiver THEN [o EXCEPT !.sender = TRUE] ELSE o
        r == execute_plan_in_transaction(c, transaction(writeable), s, n, run)
        out(result, o2, t, st2, spawned) ==
            [result |-> result, opt |-> o2, ctx |-> r.ctx,
             reason |-> r.reason, adhoc |-> t, store |-> st2, res |-> run.res,
             spawn |-> spawned]
    IN  CASE r.flow.t \in {"Ok", "Return"} ->
                IF ~writeable
                THEN out(Ok(r.flow.val), o1, cancel(r.txn), st, FALSE)
                ELSE IF kv = "cc_err"
                THEN out(Err(QueryNotExecutedDetail(CompleteChangesMessage)), o1,
                         cancel(complete_changes(r.txn, FALSE)), st, FALSE)
                ELSE IF kv = "commit_err"
                THEN out(Err(QueryNotExecutedDetail(CommitMessage)), o1,
                         commit(complete_changes(r.txn, TRUE), FALSE), st, FALSE)
                ELSE out(Ok(r.flow.val),
                         IF receiver THEN [o1 EXCEPT !.sender = FALSE] ELSE o1,
                         commit(complete_changes(r.txn, TRUE), TRUE),
                         st \cup r.txn.writes, receiver)
          [] r.flow.t \in {"Continue", "Break"} ->
                out(Ok(ValueNone), o1, r.txn, st, FALSE)
          [] OTHER ->
                out(Err(r.flow.err), o1, cancel(r.txn), st, FALSE)

\* A variant of execute_plan_impl that starts the drain before it looks at
\* what commit returned
plan_impl_drains_uncommitted(o, c, st, s, n, kv, run) ==
    IF kv = "tx_err"
    THEN [result |-> Err(Error("Transaction", TransactionMessage, 0)),
          opt |-> o, ctx |-> c, reason |-> "None", adhoc |-> NoTransaction, store |-> st,
          res |-> NoFlow, spawn |-> FALSE]
    ELSE
    LET writeable == s.writeable
        receiver == c.notifications
        o1 == IF receiver THEN [o EXCEPT !.sender = TRUE] ELSE o
        r == execute_plan_in_transaction(c, transaction(writeable), s, n, run)
        out(result, o2, t, st2, spawned) ==
            [result |-> result, opt |-> o2, ctx |-> r.ctx,
             reason |-> r.reason, adhoc |-> t, store |-> st2, res |-> run.res,
             spawn |-> spawned]
    IN  CASE r.flow.t \in {"Ok", "Return"} ->
                IF ~writeable
                THEN out(Ok(r.flow.val), o1, cancel(r.txn), st, FALSE)
                ELSE IF kv = "cc_err"
                THEN out(Err(QueryNotExecutedDetail(CompleteChangesMessage)), o1,
                         cancel(complete_changes(r.txn, FALSE)), st, FALSE)
                ELSE IF kv = "commit_err"
                THEN out(Err(QueryNotExecutedDetail(CommitMessage)), o1,
                         commit(complete_changes(r.txn, TRUE), FALSE), st, receiver)
                ELSE out(Ok(r.flow.val),
                         IF receiver THEN [o1 EXCEPT !.sender = FALSE] ELSE o1,
                         commit(complete_changes(r.txn, TRUE), TRUE),
                         st \cup r.txn.writes, receiver)
          [] r.flow.t \in {"Continue", "Break"} ->
                out(Err(InvalidControlFlow), o1, r.txn, st, FALSE)
          [] OTHER ->
                out(Err(r.flow.err), o1, cancel(r.txn), st, FALSE)

\* Executor::execute_plan_impl for the n-th statement s: the result, and
\* the Options, Context, done(), ad-hoc transaction and datastore afterwards.
execute_plan_impl(o, c, st, s, n, kv, run) ==
    IF kv = "tx_err"
    THEN [result |-> Err(Error("Transaction", TransactionMessage, 0)),
          opt |-> o, ctx |-> c, reason |-> "None", adhoc |-> NoTransaction, store |-> st,
          res |-> NoFlow, spawn |-> FALSE]
    ELSE
    LET writeable == s.writeable
        receiver == c.notifications
        o1 == IF receiver THEN [o EXCEPT !.sender = TRUE] ELSE o
        r == execute_plan_in_transaction(c, transaction(writeable), s, n, run)
        out(result, o2, t, st2, spawned) ==
            [result |-> result, opt |-> o2, ctx |-> r.ctx,
             reason |-> r.reason, adhoc |-> t, store |-> st2, res |-> run.res,
             spawn |-> spawned]
    IN  CASE r.flow.t \in {"Ok", "Return"} ->
                IF ~writeable
                THEN out(Ok(r.flow.val), o1, cancel(r.txn), st, FALSE)
                ELSE IF kv = "cc_err"
                THEN out(Err(QueryNotExecutedDetail(CompleteChangesMessage)), o1,
                         cancel(complete_changes(r.txn, FALSE)), st, FALSE)
                ELSE IF kv = "commit_err"
                THEN out(Err(QueryNotExecutedDetail(CommitMessage)), o1,
                         commit(complete_changes(r.txn, TRUE), FALSE), st, FALSE)
                ELSE out(Ok(r.flow.val),
                         IF receiver THEN [o1 EXCEPT !.sender = FALSE] ELSE o1,
                         commit(complete_changes(r.txn, TRUE), TRUE),
                         st \cup r.txn.writes, receiver)
          [] r.flow.t \in {"Continue", "Break"} ->
                out(Err(InvalidControlFlow), o1, r.txn, st, FALSE)
          [] OTHER ->
                out(Err(r.flow.err), o1, cancel(r.txn), st, FALSE)

\* The ways one bare statement can go:
\*   sole         whether USE finds the Context unshared
\*   convertible  whether statement_to_logical succeeds
\*   kv           how the datastore answers
\*   run          how execute_plan_in_transaction goes
\*   cost         the number of failures in it
BareRuns(s, n) ==
    LET good == [sole |-> TRUE, res |-> FlowOk(n), sole2 |-> TRUE, trip |-> "None", cost |-> 0]
        way(sole, convertible, kv, run, cost) ==
            [sole |-> sole, convertible |-> convertible, kv |-> kv, run |-> run, cost |-> cost]
    IN  IF s.k = "Use"
        THEN {way(TRUE, TRUE, "ok", good, 0), way(FALSE, TRUE, "ok", good, 1)}
        ELSE {way(TRUE, FALSE, "ok", good, 1), way(TRUE, TRUE, "tx_err", good, 1)}
             \cup {way(TRUE, TRUE, "ok", r, r.cost) : r \in PlanRuns(s, n)}
             \cup {way(TRUE, TRUE, k, r, 1) :
                     k \in IF s.writeable THEN {"cc_err", "commit_err"} ELSE {},
                     r \in {q \in PlanRuns(s, n) : q.cost = 0}}

\* Executor::execute_bare_statement for the n-th statement s
execute_bare_statement(o, c, rsn, st, s, n, way) ==
    LET same(result) ==
            [result |-> result, opt |-> o, ctx |-> c, reason |-> rsn,
             adhoc |-> NoTransaction, store |-> st, res |-> NoFlow, spawn |-> FALSE]
    IN  IF rsn # "None" THEN same(Err(ReasonError(rsn)))
        ELSE IF s.k = "Use"
        THEN LET u == execute_use_statement(o, c, s, way.sole) IN
             [same(u.result) EXCEPT !.opt = u.opt, !.ctx = u.ctx]
        ELSE IF ~way.convertible THEN same(Err(PlanErrorAt(n)))
        ELSE execute_plan_impl(o, c, st, s, n, way.kv, way.run)

-----------------------------------------------------------------------------
(* The state after Executor::new, before execute_stream pulls its first item *)

\* Option::None of an Option<u32> or Option<usize>
None == -1

\* No Iterable: the None of Option<Iterable>
NoIterable == [kind |-> "", irf |-> 0]

\* Results::default(): an accumulator that holds nothing yet
NoResults == [shape |-> "None", rows |-> <<>>]

\* Iterator::new(), the Default of every field
IteratorNew ==
    [run |-> FALSE, limit |-> None, start |-> None, start_skip |-> None,
     error |-> NoError, results |-> NoResults, entries |-> <<>>,
     guaranteed |-> NoIterable, cancel_on_limit |-> None]

\* A target of a statement: a Value of some kind; n is the number of things
\* of a Mock, 1 for a Thing with a range id and for an Object with an id;
\* elems are the elements of an Array
Target(kind, n, elems) == [kind |-> kind, n |-> n, elems |-> elems]

NoValue == Target("None", 0, <<>>)

\* No statement is being iterated
NoStatement ==
    [group |-> FALSE, cond |-> FALSE, order |-> FALSE, split |-> FALSE, fetch |-> FALSE,
     limit |-> None, start |-> None, only |-> FALSE, deferable |-> FALSE,
     guaranteed |-> FALSE, select |-> FALSE, create |-> FALSE, what |-> NoValue]

\* A Context without a query planner
NoPlanner ==
    [present |-> FALSE, executor |-> FALSE, iterator_condition |-> {},
     order |-> {}, specific |-> FALSE, permission |-> "Full",
     adds |-> <<[kind |-> "Table", irf |-> 0]>>, stages |-> 0]

NoOutput == [ok |-> FALSE, rows |-> <<>>, err |-> NoError]

\* No record
NoRecord == [id |-> 0, key |-> 0, res |-> "", parts |-> 0]

\* The storage before a scan: no records.
\*   pass      1 in the main call of iterate, 2 in the call for the guaranteed Yield
\*   recs      for each ingested iterable, the records it still yields
\*   started   whether the first of them is being iterated
\*   fallback  the record the guaranteed Yield produces
\*   all       history: every record the iterables held when iterate was called first
\*   pushdown  history: what check_set_start_limit answered in the main call
NoScan ==
    [pass |-> 1, recs |-> <<>>, started |-> FALSE, fallback |-> NoRecord,
     all |-> <<>>, pushdown |-> FALSE]

\* The iterator before any statement reaches it
IteratorIdle ==
    /\ iter = IteratorNew
    /\ stm = NoStatement
    /\ qp = NoPlanner
    /\ ipc = "idle"
    /\ scan = NoScan
    /\ output = NoOutput
    /\ steps = <<>>

\* No drain has been spawned, and the sink of the Context is open and empty
NotifyIdle ==
    /\ drains = <<>>
    /\ sink = [open |-> TRUE, got |-> <<>>]

\* What the receiver of the channel of transaction t holds when the executor
\* is done with t: one notification for each statement that wrote in t while
\* the sender of the channel was installed in the Options, in the order of
\* the statements
RECURSIVE Sent(_, _)
Sent(t, n) ==
    IF n > MaxStream THEN <<>>
    ELSE IF n \in t.writes THEN <<n>> \o Sent(t, n + 1)
    ELSE Sent(t, n + 1)

\* spawn(async move { while let Ok(x) = recv.recv().await { ... } }): one more
\* task, which owns the receiver of the channel of transaction t
spawn(ds, t) == Append(ds, [of |-> t, left |-> Sent(t, 1)])

\* Value::None of expr/value, and the path primitives before any call
VNone == [t |-> "None"]

ValueIdle ==
    /\ self = VNone
    /\ path = <<>>
    /\ vals = <<>>
    /\ picked = VNone
    /\ vpc = "idle"
    /\ before = VNone

NoStmt == Stmt("")

\* The executor as constructed for a stream made of `items`, under a session
\* of `auths`, with skip_success_results drawn from `skips`
InitWith(items, auths, skips) ==
    /\ pc = "top"
    /\ consumed = 0
    /\ stmt = NoStmt
    /\ results = <<>>
    /\ opt \in {[import |-> FALSE, force |-> "None", futures |-> "Disabled",
                 ns |-> "NS", db |-> "DB", sender |-> FALSE, auth |-> a] : a \in auths}
    /\ ctx \in {[session |-> [ns |-> "NS", db |-> "DB"], x |-> ValueNone,
                 notifications |-> b] : b \in BOOLEAN}
    /\ reason = "None"
    /\ txn = NoTransaction
    /\ adhoc = NoTransaction
    /\ store = {}
    /\ start_results = 0
    /\ skip_remaining = FALSE
    /\ done = "None"
    /\ skip_success_results \in skips
    /\ returned = NoError
    /\ blocks = <<>>
    /\ source = items
    /\ faults = 0
    /\ bare = 0
    /\ plan_res = NoFlow
    /\ IteratorIdle
    /\ ValueIdle
    /\ NotifyIdle

\* The statements of the streams that exercise transaction blocks
BlockItems ==
    {Stmt("Begin"), Stmt("Cancel"), Stmt("Commit"), ParseError,
     [Stmt("Option") EXCEPT !.name = <<"i","m","p","o","r","t">>, !.what = TRUE],
     [Stmt("Use") EXCEPT !.ns = "OTHER_NS"],
     [Stmt("Data") EXCEPT !.writeable = TRUE],
     [Stmt("Output") EXCEPT !.writeable = TRUE],
     [Stmt("Live") EXCEPT !.writeable = TRUE]}

\* Sessions at root level: one that may edit options, one that may not
RootAuths == {a \in Auths : a.level = "Root"}

Init == InitWith(BlockItems, RootAuths, {FALSE})

\* stream.next() yields item `it`, the n-th item, n == consumed + 1, and
\* handling it meets `cost` failures
Pull(it, cost) ==
    /\ it \in source
    /\ consumed < MaxStream
    /\ faults + cost <= MaxFaults
    /\ consumed' = consumed + 1
    /\ stmt' = it
    /\ faults' = faults + cost

\* The deadline passes or the cancel token is set while the executor runs
trip ==
    /\ pc \notin {"done", "failed"}
    /\ reason = "None"
    /\ faults < MaxFaults
    /\ faults' = faults + 1
    /\ reason' \in {"Timedout", "Canceled"}
    /\ UNCHANGED <<notifVars, valueVars, iterVars, pc, consumed, stmt, results, opt, ctx, txn, adhoc, store,
                   start_results, skip_remaining, done, skip_success_results,
                   returned, blocks, source, bare, plan_res>>

-----------------------------------------------------------------------------
(* execute_stream: the top-level loop *)

\* A variant of Rewrite that leaves every Response as it was
RewriteNothing(rs, start, e) == rs

\* A variant of Rewrite that rewrites the whole vector
RewriteAll(rs, start, e) ==
    [i \in 1..Len(rs) |-> [rs[i] EXCEPT !.query_type = "Other", !.result = Err(e)]]

\* for res in &mut self.results[start..] { res.query_type = Other; res.result = Err(e) }
Rewrite(rs, start, e) ==
    [i \in 1..Len(rs) |->
        IF i > start THEN [rs[i] EXCEPT !.query_type = "Other", !.result = Err(e)]
        ELSE rs[i]]

\* A variant of truncate that drops nothing
truncateNothing(rs, len) == rs

\* self.results.truncate(len)
truncate(rs, len) == SubSeq(rs, 1, len)

\* The history entry of a block that begins with the n-th item
OpenBlock(n, start) ==
    Append(blocks, [first |-> n, last |-> 0, start |-> start, end |-> 0, state |-> "open"])

\* The history entry of the current block when execute_begin_statement returns
\* after the n-th item with results rs and transaction t
CloseBlock(n, rs, t) ==
    [blocks EXCEPT ![Len(blocks)] =
        [@ EXCEPT !.last = n, !.end = Len(rs), !.state = t.state]]

\* The stream ends at top level: execute_stream returns Ok(results)
top_end ==
    /\ pc = "top"
    /\ pc' = "done"
    /\ UNCHANGED <<notifVars, valueVars, iterVars, consumed, stmt, results, opt, ctx, reason, txn, adhoc, store,
                   start_results, skip_remaining, done, skip_success_results,
                   returned, blocks, source, faults, bare, plan_res>>

\* The stream yields a parse error at top level
top_parse_error ==
    /\ pc = "top"
    /\ Pull(ParseError, 1)
    /\ results' = Append(results, Response("ZERO", Err(ParseErrorAt(consumed + 1)), "Other"))
    /\ pc' = "done"
    /\ UNCHANGED <<notifVars, valueVars, iterVars, opt, ctx, reason, txn, adhoc, store, start_results,
                   skip_remaining, done, skip_success_results, returned, blocks, source, bare, plan_res>>

\* Statement::Option at top level
top_option ==
    /\ pc = "top"
    /\ \E it \in source :
        /\ it.k = "Option"
        /\ Pull(it, 0)
        /\ LET r == execute_option_statement(opt, it) IN
            /\ opt' = r.opt
            /\ pc' = IF r.result.ok THEN "top" ELSE "failed"
            /\ returned' = r.result.err
    /\ UNCHANGED <<notifVars, valueVars, iterVars, results, ctx, reason, txn, adhoc, store, start_results,
                   skip_remaining, done, skip_success_results, blocks, source, bare, plan_res>>

\* Statement::Begin at top level: execute_begin_statement up to its first loop
top_begin ==
    /\ pc = "top"
    /\ \E txok \in BOOLEAN :
        /\ Pull(Stmt("Begin"), IF txok THEN 0 ELSE 1)
        /\ IF ~txok
           THEN /\ pc' = "ff_open_failed"
                /\ txn' = NoTransaction
                /\ blocks' = [OpenBlock(consumed + 1, Len(results)) EXCEPT
                                 ![Len(blocks) + 1].state = "none"]
                /\ UNCHANGED <<opt, start_results, skip_remaining>>
           ELSE /\ pc' = "block"
                /\ txn' = transaction(TRUE)
                /\ opt' = IF ctx.notifications THEN [opt EXCEPT !.sender = TRUE] ELSE opt
                /\ start_results' = Len(results)
                /\ skip_remaining' = FALSE
                /\ blocks' = OpenBlock(consumed + 1, Len(results))
    /\ UNCHANGED <<notifVars, valueVars, iterVars, results, ctx, reason, adhoc, store, done,
                   skip_success_results, returned, source, bare, plan_res>>

\* How many bare statements a run makes at most: MaxBare in a stream that
\* holds transaction blocks, any number in a stream without them
bare_limit == IF Stmt("Begin") \in source THEN MaxBare ELSE MaxStream

\* Any other statement at top level: execute_bare_statement and the push
top_statement ==
    /\ pc = "top"
    /\ bare < bare_limit
    /\ bare' = bare + 1
    /\ \E it \in source :
        /\ it.k \notin {"Option", "Begin", "ParseError"}
        /\ \E way \in BareRuns(it, consumed + 1) :
            /\ Pull(it, IF reason = "None" THEN way.cost ELSE 0)
            /\ LET r == execute_bare_statement(opt, ctx, reason, store, it, consumed + 1, way)
               IN
                /\ opt' = r.opt
                /\ ctx' = r.ctx
                /\ reason' = r.reason
                /\ adhoc' = r.adhoc
                /\ store' = r.store
                /\ plan_res' = r.res
                /\ drains' = IF r.spawn THEN spawn(drains, r.adhoc) ELSE drains
                /\ results' =
                    IF ~skip_success_results \/ ~r.result.ok
                    THEN Append(results, Response("elapsed", r.result, query_type_of(it)))
                    ELSE results
    /\ UNCHANGED <<sink, valueVars, iterVars, pc, txn, start_results, skip_remaining, done, skip_success_results,
                   returned, blocks, source>>

-----------------------------------------------------------------------------
(* execute_begin_statement: the fast-forward loops *)

\* execute_begin_statement returns Err(e) with results rs: execute_stream
\* pushes the error and returns
ReturnErr(rs, e) ==
    /\ results' = Append(rs, Response("ZERO", Err(e), "Other"))
    /\ pc' = "done"

\* A variant of FastForward that also pushes a Response for the closing
\* CANCEL or COMMIT
FastForwardPushesLast(at, e) ==
    /\ pc = at
    /\ \/ /\ pc' = "done"
          /\ blocks' = CloseBlock(consumed, results, txn)
          /\ UNCHANGED <<consumed, stmt, results, faults>>
       \/ \E it \in source :
            /\ Pull(it, IF it = ParseError THEN 1 ELSE 0)
            /\ IF it = ParseError
               THEN /\ ReturnErr(results, ParseErrorAt(consumed + 1))
                    /\ blocks' = CloseBlock(consumed + 1, results, txn)
               ELSE /\ results' = Append(results, Response("ZERO", Err(e), "Other"))
                    /\ IF IsCancelOrCommit(it)
                       THEN /\ pc' = "top"
                            /\ blocks' = CloseBlock(consumed + 1, results', txn)
                       ELSE UNCHANGED <<pc, blocks>>
    /\ UNCHANGED <<notifVars, valueVars, iterVars, opt, ctx, reason, txn, adhoc, store, start_results,
                   skip_remaining, done, skip_success_results, returned, source, bare, plan_res>>

\* One round of a loop that consumes the stream up to the next CANCEL or
\* COMMIT and pushes Err(e) for every other statement
FastForward(at, e) ==
    /\ pc = at
    /\ \/ /\ pc' = "done"
          /\ blocks' = CloseBlock(consumed, results, txn)
          /\ UNCHANGED <<consumed, stmt, results, faults>>
       \/ \E it \in source :
            /\ Pull(it, IF it = ParseError THEN 1 ELSE 0)
            /\ IF it = ParseError
               THEN /\ ReturnErr(results, ParseErrorAt(consumed + 1))
                    /\ blocks' = CloseBlock(consumed + 1, results, txn)
               ELSE IF IsCancelOrCommit(it)
               THEN /\ pc' = "top"
                    /\ blocks' = CloseBlock(consumed + 1, results, txn)
                    /\ UNCHANGED results
               ELSE /\ results' = Append(results, Response("ZERO", Err(e), "Other"))
                    /\ UNCHANGED <<pc, blocks>>
    /\ UNCHANGED <<notifVars, valueVars, iterVars, opt, ctx, reason, txn, adhoc, store, start_results,
                   skip_remaining, done, skip_success_results, returned, source, bare, plan_res>>

\* The loop taken when the transaction could not be opened
ff_open_failed == FastForward("ff_open_failed", QueryNotExecuted)

\* The loop taken after a timeout or a cancellation was detected
ff_done == FastForward("ff_done", ReasonError(done))

\* The loop taken after a BEGIN inside the block
ff_nested == FastForward("ff_nested", QueryNotExecuted)

\* The loop taken after a statement of the block failed
\* A variant of ff_error that answers the closing COMMIT or CANCEL as well
ff_error_answers_commit == FastForwardPushesLast("ff_error", QueryNotExecuted)

ff_error == FastForward("ff_error", QueryNotExecuted)

-----------------------------------------------------------------------------
(* execute_begin_statement: the loop of an open block *)

\* A variant of block_end that cancels the transaction and keeps the Responses
block_end_keeps_results ==
    /\ pc = "block"
    /\ txn' = cancel(txn)
    /\ opt' = [opt EXCEPT !.sender = FALSE]
    /\ pc' = "done"
    /\ blocks' = CloseBlock(consumed, results, txn')
    /\ UNCHANGED <<notifVars, valueVars, iterVars, consumed, stmt, results, ctx, reason, adhoc, store, start_results,
                   skip_remaining, done, skip_success_results, returned, source, faults, bare, plan_res>>

\* The stream ends while the block is open
block_end ==
    /\ pc = "block"
    /\ txn' = cancel(txn)
    /\ results' = Rewrite(results, start_results,
                          QueryNotExecutedDetail(MissingCommitMessage))
    /\ opt' = [opt EXCEPT !.sender = FALSE]
    /\ pc' = "done"
    /\ blocks' = CloseBlock(consumed, results', txn')
    /\ UNCHANGED <<notifVars, valueVars, iterVars, consumed, stmt, ctx, reason, adhoc, store, start_results,
                   skip_remaining, done, skip_success_results, returned, source, faults, bare, plan_res>>

\* A variant of block_parse_error that returns the error and leaves the
\* transaction open
block_parse_error_leaves_open ==
    /\ pc = "block"
    /\ Pull(ParseError, 1)
    /\ ReturnErr(results, ParseErrorAt(consumed + 1))
    /\ blocks' = CloseBlock(consumed + 1, results, txn)
    /\ UNCHANGED <<notifVars, valueVars, iterVars, opt, ctx, reason, txn, adhoc, store, start_results,
                   skip_remaining, done, skip_success_results, returned, source, bare, plan_res>>

\* The stream yields a parse error while the block is open
block_parse_error ==
    /\ pc = "block"
    /\ Pull(ParseError, 1)
    /\ txn' = cancel(txn)
    /\ ReturnErr(results, ParseErrorAt(consumed + 1))
    /\ blocks' = CloseBlock(consumed + 1, results, txn')
    /\ UNCHANGED <<notifVars, valueVars, iterVars, opt, ctx, reason, adhoc, store, start_results,
                   skip_remaining, done, skip_success_results, returned, source, bare, plan_res>>

\* A variant of block_done that starts fast-forwarding without rewriting the
\* Responses of the block
block_done_keeps_results ==
    /\ pc = "block"
    /\ reason # "None"
    /\ \E it \in source \ {ParseError} : Pull(it, 0)
    /\ txn' = cancel(txn)
    /\ done' = reason
    /\ pc' = "ff_done"
    /\ UNCHANGED <<notifVars, valueVars, iterVars, results, opt, ctx, reason, adhoc, store, start_results,
                   skip_remaining, skip_success_results, returned, blocks, source, bare, plan_res>>

\* ctx.done(true) is Some at a statement boundary
block_done ==
    /\ pc = "block"
    /\ reason # "None"
    /\ \E it \in source \ {ParseError} : Pull(it, 0)
    /\ txn' = cancel(txn)
    /\ results' = Rewrite(results, start_results, QueryCancelled)
    /\ done' = reason
    /\ pc' = "ff_done"
    /\ UNCHANGED <<notifVars, valueVars, iterVars, opt, ctx, reason, adhoc, store, start_results,
                   skip_remaining, skip_success_results, returned, blocks, source, bare, plan_res>>

\* A statement after a RETURN that is neither CANCEL nor COMMIT
block_skip ==
    /\ pc = "block"
    /\ reason = "None"
    /\ skip_remaining
    /\ \E it \in source \ {ParseError} :
        /\ ~IsCancelOrCommit(it)
        /\ Pull(it, 0)
    /\ UNCHANGED <<notifVars, valueVars, iterVars, pc, results, opt, ctx, reason, txn, adhoc, store, start_results,
                   skip_remaining, done, skip_success_results, returned, blocks, source, bare, plan_res>>

\* A variant of block_begin that rewrites the Responses and pushes none for
\* the BEGIN
block_begin_pushes_nothing ==
    /\ pc = "block"
    /\ reason = "None"
    /\ ~skip_remaining
    /\ Pull(Stmt("Begin"), 0)
    /\ txn' = cancel(txn)
    /\ results' = Rewrite(results, start_results, QueryNotExecuted)
    /\ opt' = [opt EXCEPT !.sender = FALSE]
    /\ pc' = "ff_nested"
    /\ UNCHANGED <<notifVars, valueVars, iterVars, ctx, reason, adhoc, store, start_results, skip_remaining, done,
                   skip_success_results, returned, blocks, source, bare, plan_res>>

\* Statement::Begin inside the block
block_begin ==
    /\ pc = "block"
    /\ reason = "None"
    /\ ~skip_remaining
    /\ Pull(Stmt("Begin"), 0)
    /\ txn' = cancel(txn)
    /\ results' = Append(Rewrite(results, start_results, QueryNotExecuted),
                         Response("ZERO", Err(QueryNotExecutedDetail(BeginMessage)), "Other"))
    /\ opt' = [opt EXCEPT !.sender = FALSE]
    /\ pc' = "ff_nested"
    /\ UNCHANGED <<notifVars, valueVars, iterVars, ctx, reason, adhoc, store, start_results, skip_remaining, done,
                   skip_success_results, returned, blocks, source, bare, plan_res>>

\* A variant of block_cancel that cancels the transaction and keeps the
\* Responses
block_cancel_keeps_results ==
    /\ pc = "block"
    /\ reason = "None"
    /\ Pull(Stmt("Cancel"), 0)
    /\ txn' = cancel(txn)
    /\ opt' = [opt EXCEPT !.sender = FALSE]
    /\ pc' = "top"
    /\ blocks' = CloseBlock(consumed + 1, results, txn')
    /\ UNCHANGED <<notifVars, valueVars, iterVars, results, ctx, reason, adhoc, store, start_results, skip_remaining,
                   done, skip_success_results, returned, source, bare, plan_res>>

\* Statement::Cancel inside the block
block_cancel ==
    /\ pc = "block"
    /\ reason = "None"
    /\ Pull(Stmt("Cancel"), 0)
    /\ txn' = cancel(txn)
    /\ results' = Rewrite(results, start_results, QueryCancelled)
    /\ opt' = [opt EXCEPT !.sender = FALSE]
    /\ pc' = "top"
    /\ blocks' = CloseBlock(consumed + 1, results', txn')
    /\ UNCHANGED <<notifVars, valueVars, iterVars, ctx, reason, adhoc, store, start_results, skip_remaining, done,
                   skip_success_results, returned, source, bare, plan_res>>

\* A variant of complete_and_commit that commits whatever complete_changes
\* returned
commit_regardless(t, kv) ==
    IF kv = "commit_err"
    THEN [txn |-> commit(complete_changes(t, TRUE), FALSE), message |-> CommitMessage]
    ELSE [txn |-> commit(complete_changes(t, kv # "cc_err"), TRUE), message |-> ""]

\* The COMMIT arm up to its `else`: complete_changes, then commit unless that
\* failed.  The transaction afterwards and the message of the error, "" when
\* both succeeded.
complete_and_commit(t, kv) ==
    IF kv = "cc_err"
    THEN [txn |-> cancel(complete_changes(t, FALSE)), message |-> CompleteChangesMessage]
    ELSE IF kv = "commit_err"
    THEN [txn |-> commit(complete_changes(t, TRUE), FALSE), message |-> CommitMessage]
    ELSE [txn |-> commit(complete_changes(t, TRUE), TRUE), message |-> ""]

\* Statement::Commit inside the block
block_commit ==
    /\ pc = "block"
    /\ reason = "None"
    /\ \E kv \in KvsRuns \ {"tx_err"} :
        /\ Pull(Stmt("Commit"), IF kv = "ok" THEN 0 ELSE 1)
        /\ LET r == complete_and_commit(txn, kv) IN
            /\ txn' = r.txn
            /\ IF r.message = ""
               THEN /\ store' = store \cup txn.writes
                    /\ opt' = IF ctx.notifications THEN [opt EXCEPT !.sender = FALSE]
                              ELSE opt
                    /\ drains' = IF ctx.notifications THEN spawn(drains, r.txn) ELSE drains
                    /\ UNCHANGED results
               ELSE /\ results' = Rewrite(results, start_results,
                                          QueryNotExecutedDetail(r.message))
                    /\ opt' = [opt EXCEPT !.sender = FALSE]
                    /\ UNCHANGED <<store, drains>>
    /\ pc' = "top"
    /\ blocks' = CloseBlock(consumed + 1, results', txn')
    /\ UNCHANGED <<sink, valueVars, iterVars, ctx, reason, adhoc, start_results, skip_remaining, done,
                   skip_success_results, returned, source, bare, plan_res>>

\* A variant of block_option that pushes a Response for an applied OPTION too
block_option_pushes_always ==
    /\ pc = "block"
    /\ reason = "None"
    /\ ~skip_remaining
    /\ \E it \in source :
        /\ it.k = "Option"
        /\ Pull(it, 0)
        /\ LET r == execute_option_statement(opt, it) IN
            /\ opt' = r.opt
            /\ results' = Append(results, Response("elapsed", r.result, "Other"))
    /\ UNCHANGED <<notifVars, valueVars, iterVars, pc, ctx, reason, txn, adhoc, store, start_results,
                   skip_remaining, done, skip_success_results, returned, blocks, source, bare, plan_res>>

\* Statement::Option inside the block
block_option ==
    /\ pc = "block"
    /\ reason = "None"
    /\ ~skip_remaining
    /\ \E it \in source :
        /\ it.k = "Option"
        /\ Pull(it, 0)
        /\ LET r == execute_option_statement(opt, it) IN
            /\ opt' = r.opt
            /\ results' = IF r.result.ok THEN results
                          ELSE Append(results, Response("elapsed", r.result, "Other"))
    /\ UNCHANGED <<notifVars, valueVars, iterVars, pc, ctx, reason, txn, adhoc, store, start_results,
                   skip_remaining, done, skip_success_results, returned, blocks, source, bare, plan_res>>

\* Statement::Use inside the block
block_use ==
    /\ pc = "block"
    /\ reason = "None"
    /\ ~skip_remaining
    /\ \E it \in source, sole \in BOOLEAN :
        /\ it.k = "Use"
        /\ Pull(it, IF sole THEN 0 ELSE 1)
        /\ LET r == execute_use_statement(opt, ctx, it, sole) IN
            /\ opt' = r.opt
            /\ ctx' = r.ctx
            /\ results' = Append(results, Response("elapsed", r.result, "Other"))
    /\ UNCHANGED <<notifVars, valueVars, iterVars, pc, reason, txn, adhoc, store, start_results,
                   skip_remaining, done, skip_success_results, returned, blocks, source, bare, plan_res>>

\* Any other statement inside the block, when statement_to_logical fails
block_unplanned ==
    /\ pc = "block"
    /\ reason = "None"
    /\ ~skip_remaining
    /\ \E it \in source :
        /\ it.k \notin {"Begin", "Cancel", "Commit", "Option", "Use", "ParseError"}
        /\ Pull(it, 1)
        /\ skip_remaining' = (it.k = "Output")
        /\ ReturnErr(results, PlanErrorAt(consumed + 1))
        /\ blocks' = CloseBlock(consumed + 1, results, txn)
    /\ UNCHANGED <<notifVars, valueVars, iterVars, opt, ctx, reason, txn, adhoc, store, start_results, done,
                   skip_success_results, returned, source, bare, plan_res>>

\* Any other statement inside the block, run in the block's transaction
block_statement ==
    /\ pc = "block"
    /\ reason = "None"
    /\ ~skip_remaining
    /\ \E it \in source :
        /\ it.k \notin {"Begin", "Cancel", "Commit", "Option", "Use", "ParseError"}
        /\ \E run \in PlanRuns(it, consumed + 1) :
            LET r == execute_plan_in_transaction(ctx, txn, it, consumed + 1, run)
                skip == (it.k = "Output") \/ r.flow.t = "Return"
                value == IF r.flow.t \in {"Ok", "Return"} THEN Ok(r.flow.val)
                         ELSE Err(InvalidControlFlow)
            IN  /\ Pull(it, run.cost)
                /\ ctx' = r.ctx
                /\ reason' = r.reason
                /\ plan_res' = run.res
                /\ IF r.flow.t = "Err"
                   THEN /\ results' =
                            Append(Rewrite(results, start_results, QueryNotExecuted),
                                   Response("elapsed", Err(r.flow.err), query_type_of(it)))
                        /\ txn' = cancel(r.txn)
                        /\ opt' = [opt EXCEPT !.sender = FALSE]
                        /\ skip_remaining' = (it.k = "Output")
                        /\ pc' = "ff_error"
                   ELSE /\ results' =
                            Append(IF skip THEN truncate(results, start_results)
                                   ELSE results,
                                   Response("elapsed", value, query_type_of(it)))
                        /\ txn' = r.txn
                        /\ skip_remaining' = skip
                        /\ UNCHANGED <<pc, opt>>
    /\ UNCHANGED <<notifVars, valueVars, iterVars, adhoc, store, start_results, done, skip_success_results, returned,
                   blocks, source, bare>>

-----------------------------------------------------------------------------

Next ==
    \/ trip
    \/ top_end
    \/ top_parse_error
    \/ top_option
    \/ top_begin
    \/ top_statement
    \/ ff_open_failed
    \/ ff_done
    \/ ff_nested
    \/ ff_error
    \/ block_end
    \/ block_parse_error
    \/ block_done
    \/ block_skip
    \/ block_begin
    \/ block_cancel
    \/ block_commit
    \/ block_option
    \/ block_use
    \/ block_unplanned
    \/ block_statement

Spec == Init /\ [][Next]_vars

-----------------------------------------------------------------------------
(* Streams without transaction blocks *)

\* The statements of the streams that run outside any transaction block
TopItems ==
    {ParseError,
     [Stmt("Option") EXCEPT !.name = <<"i","m","p","o","r","t">>, !.what = TRUE],
     [Stmt("Use") EXCEPT !.ns = "OTHER_NS"],
     [Stmt("Data") EXCEPT !.writeable = TRUE],
     Stmt("Data")}

InitTop == InitWith(TopItems, RootAuths, {FALSE})

\* execute_stream on a stream that holds no BEGIN
NextTop ==
    \/ trip
    \/ top_end
    \/ top_parse_error
    \/ top_option
    \/ top_statement

SpecTop == InitTop /\ [][NextTop]_vars

\* The statements of the streams that set options: every option name with
\* both values, and a USE that leaves the namespace of the session
OptionItems ==
    {ParseError, [Stmt("Use") EXCEPT !.ns = "OTHER_NS"]}
    \cup {[Stmt("Option") EXCEPT !.name = n, !.what = w] : n \in OptionNames, w \in BOOLEAN}

InitOptions == InitWith(OptionItems, Auths, {FALSE})

SpecOptions == InitOptions /\ [][NextTop]_vars

\* The statements of the streams that move the session: USE NS, USE DB and
\* USE NS DB
UseItems ==
    {ParseError,
     [Stmt("Option") EXCEPT !.name = <<"i","m","p","o","r","t">>, !.what = TRUE]}
    \cup {[Stmt("Use") EXCEPT !.ns = u[1], !.db = u[2]] : u \in UseTargets}

InitUse == InitWith(UseItems, RootAuths, {FALSE})

SpecUse == InitUse /\ [][NextTop]_vars

-----------------------------------------------------------------------------
(* Vocabulary of the properties *)

\* This step pulled one item from the stream, of kind k
Pulled(k) == consumed' = consumed + 1 /\ stmt'.k = k

\* This step pulled a statement that is neither COMMIT nor CANCEL
PulledInner ==
    /\ consumed' = consumed + 1
    /\ stmt'.k \notin {"Commit", "Cancel", "ParseError"}

\* The results of indices from+1 .. to
Range(from, to) == {i \in DOMAIN results : from < i /\ i <= to}

\* The results the block of history entry b added
BlockRange(b) == Range(b.start, b.end)

\* The step left the results of indices 1 .. n as they were
KeptUpTo(n) == \A i \in 1..n : i \in DOMAIN results' /\ results'[i] = results[i]

\* The step executed and applied nothing
NothingExecuted ==
    /\ txn' = txn /\ adhoc' = adhoc /\ store' = store
    /\ opt' = opt /\ ctx' = ctx

\* The step appended exactly one Response, with result Err(e)
PushedOnly(e) ==
    /\ Len(results') = Len(results) + 1
    /\ KeptUpTo(Len(results))
    /\ results'[Len(results')].result = Err(e)

\* One round of a fast-forward loop at `at` that pushes Err(e): a statement
\* gets exactly one Err(e) Response and is not executed, COMMIT or CANCEL gets
\* none and ends the block
FastForwardRound(at, e) ==
    pc = at =>
        /\ NothingExecuted
        /\ PulledInner => PushedOnly(e) /\ pc' = at
        /\ (Pulled("Commit") \/ Pulled("Cancel")) => results' = results /\ pc' = "top"

\* The error kinds of a statement that was not run to completion
NotExecutedKinds ==
    {"QueryCancelled", "QueryTimedout", "QueryNotExecuted", "QueryNotExecutedDetail"}

-----------------------------------------------------------------------------
(* C1..C10: transaction blocks *)

\* C1: when a data statement fails with an error inside an open block, every
\* Response the block pushed before it becomes QueryNotExecuted, the failing
\* statement's Response carries its own error, the transaction is cancelled
\* and stays so, and every later statement up to the next COMMIT or CANCEL is
\* not executed and gets exactly one QueryNotExecuted Response.
C1_StatementError ==
    [][ /\ (pc = "block" /\ pc' = "ff_error") =>
            /\ Len(results') = Len(results) + 1
            /\ KeptUpTo(start_results)
            /\ \A i \in Range(start_results, Len(results)) :
                    results'[i].result = Err(QueryNotExecuted)
            /\ LET own == results'[Len(results')].result IN
                /\ ~own.ok
                /\ own.err.kind \in {"Thrown", "Unreachable", "QueryTimedout", "QueryCancelled"}
                /\ own.err.kind = "Thrown" => own.err.at = consumed'
            /\ txn'.state = "cancelled"
            /\ store' = store
        /\ pc = "ff_error" => txn.state = "cancelled"
        /\ FastForwardRound("ff_error", QueryNotExecuted)
      ]_vars

\* C1 witness: a statement failed after the block had pushed a Response, and
\* a later statement was fast-forwarded
C1_Witness ==
    /\ pc = "ff_error"
    /\ Len(results) = start_results + 3
    /\ results[start_results + 1].result = Err(QueryNotExecuted)
    /\ results[start_results + 2].result.err.kind = "Thrown"
    /\ results[start_results + 3].result = Err(QueryNotExecuted)
    /\ txn.state = "cancelled"

\* C2: in the vector execute_stream returns, a block whose transaction was
\* not committed contains no Ok Response.
C2_NoOkInUncommittedBlock ==
    pc = "done" =>
        \A b \in DOMAIN blocks :
            blocks[b].state # "committed" =>
                \A i \in BlockRange(blocks[b]) : ~results[i].result.ok

\* C3: when a statement dispatched inside an open block ended with an Err
\* Response, the block's transaction is not committed afterwards: no mutation
\* made by a statement of the block is visible.
C3_ErrorBlocksCommit ==
    \A b \in DOMAIN blocks :
        (\E i \in BlockRange(blocks[b]) : ~results[i].result.ok) =>
            \A m \in store : m < blocks[b].first \/ m > blocks[b].last

\* C4: when a statement returns inside an open block, the block's Responses so
\* far are replaced by exactly one Response holding the returned value; every
\* later statement dispatched before the COMMIT or CANCEL is skipped, not
\* executed and adds no Response; a following COMMIT is still carried out and
\* makes the block's mutations visible.
C4_Return ==
    [][ /\ (pc = "block" /\ ~skip_remaining /\ skip_remaining' /\ pc' = "block"
            /\ results'[Len(results')].result.ok) =>
            /\ Len(results') = start_results + 1
            /\ KeptUpTo(start_results)
            /\ results'[Len(results')].result = Ok(consumed')
        /\ (pc = "block" /\ skip_remaining /\ reason = "None" /\ PulledInner) =>
            /\ results' = results
            /\ NothingExecuted
            /\ pc' = "block"
        /\ (pc = "block" /\ skip_remaining /\ reason = "None" /\ Pulled("Commit")) =>
            /\ txn'.state \in {"committed", "cancelled", "failed"}
            /\ txn'.state = "committed" => store' = store \cup txn.writes /\ results' = results
      ]_vars

\* C4 witness: BEGIN; a mutation; RETURN; a skipped statement; COMMIT
C4_Witness ==
    /\ pc = "top"
    /\ blocks # <<>>
    /\ LET b == blocks[Len(blocks)] IN
        /\ b.state = "committed"
        /\ b.end = b.start + 1
        /\ results[b.end].result = Ok(b.first + 2)
        /\ b.last = b.first + 4
        /\ b.first + 1 \in store

\* C5: on CANCEL in an open block the transaction is cancelled and nothing
\* becomes visible, every Response the block added becomes QueryCancelled with
\* query_type Other, and no Response is added for the CANCEL.
C5_Cancel ==
    [][ (pc = "block" /\ Pulled("Cancel")) =>
            /\ txn'.state = "cancelled"
            /\ store' = store
            /\ Len(results') = Len(results)
            /\ KeptUpTo(start_results)
            /\ \A i \in Range(start_results, Len(results)) :
                    /\ results'[i].result = Err(QueryCancelled)
                    /\ results'[i].query_type = "Other"
      ]_vars

\* C5 witness: a CANCEL was dispatched in a block holding two Responses
C5_Witness ==
    /\ pc = "top"
    /\ stmt.k = "Cancel"
    /\ blocks # <<>>
    /\ LET b == blocks[Len(blocks)] IN
        /\ b.state = "cancelled"
        /\ b.end = b.start + 2
        /\ \A i \in BlockRange(b) :
              results[i].result = Err(QueryCancelled) /\ results[i].query_type = "Other"

\* The calls the step made on the block's transaction
NewCalls == SubSeq(txn'.calls, Len(txn.calls) + 1, Len(txn'.calls))

\* C6: on COMMIT in an open block, complete_changes is called before commit
\* and commit is not attempted when complete_changes failed; if either fails,
\* every Response the block added becomes QueryNotExecutedDetail with the
\* failure's message; if both succeed, the Responses are left as they were;
\* no Response is added for the COMMIT.
C6_Commit ==
    [][ (pc = "block" /\ reason = "None" /\ Pulled("Commit")) =>
            /\ NewCalls \in {<<"complete_changes", "commit">>,
                             <<"complete_changes", "commit_err">>,
                             <<"complete_changes_err", "cancel">>}
            /\ Len(results') = Len(results)
            /\ KeptUpTo(start_results)
            /\ NewCalls[2] = "commit" =>
                    /\ results' = results
                    /\ txn'.state = "committed"
                    /\ store' = store \cup txn.writes
            /\ NewCalls[2] = "commit_err" =>
                    /\ \A i \in Range(start_results, Len(results)) :
                            results'[i].result = Err(QueryNotExecutedDetail(CommitMessage))
                    /\ store' = store
            /\ NewCalls[1] = "complete_changes_err" =>
                    /\ \A i \in Range(start_results, Len(results)) :
                            results'[i].result =
                                Err(QueryNotExecutedDetail(CompleteChangesMessage))
                    /\ store' = store
      ]_vars

\* C6 witness: a COMMIT whose complete_changes failed, in a block that had
\* added a Response
C6_Witness ==
    /\ pc = "top"
    /\ stmt.k = "Commit"
    /\ txn.calls = <<"complete_changes_err", "cancel">>
    /\ blocks # <<>>
    /\ LET b == blocks[Len(blocks)] IN
        /\ b.end > b.start
        /\ \A i \in BlockRange(b) :
              results[i].result = Err(QueryNotExecutedDetail(CompleteChangesMessage))

\* C7: a BEGIN dispatched while a block is open cancels the transaction,
\* rewrites every Response the block added to QueryNotExecuted, pushes one
\* QueryNotExecutedDetail("Tried to start a transaction while another
\* transaction was open"), and then gives each statement up to the next
\* COMMIT or CANCEL one QueryNotExecuted Response without executing it.
C7_NestedBegin ==
    [][ /\ (pc = "block" /\ pc' = "ff_nested") =>
            /\ Pulled("Begin")
            /\ txn'.state = "cancelled"
            /\ store' = store
            /\ Len(results') = Len(results) + 1
            /\ KeptUpTo(start_results)
            /\ \A i \in Range(start_results, Len(results)) :
                    results'[i].result = Err(QueryNotExecuted)
            /\ results'[Len(results')].result = Err(QueryNotExecutedDetail(BeginMessage))
        /\ (pc = "block" /\ reason = "None" /\ ~skip_remaining /\ Pulled("Begin")) =>
            pc' = "ff_nested"
        /\ FastForwardRound("ff_nested", QueryNotExecuted)
      ]_vars

\* C7 witness: a nested BEGIN after one Response, then a fast-forwarded statement
C7_Witness ==
    /\ pc = "ff_nested"
    /\ Len(results) = start_results + 3
    /\ results[start_results + 1].result = Err(QueryNotExecuted)
    /\ results[start_results + 2].result = Err(QueryNotExecutedDetail(BeginMessage))
    /\ results[start_results + 3].result = Err(QueryNotExecuted)
    /\ txn.state = "cancelled"

\* C8: when the stream ends while a block is open, the transaction is
\* cancelled and every Response the block added becomes
\* QueryNotExecutedDetail("Missing COMMIT statement"), the value of an earlier
\* RETURN included.
C8_MissingCommit ==
    [][ (pc = "block" /\ pc' = "done" /\ consumed' = consumed) =>
            /\ txn'.state = "cancelled"
            /\ store' = store
            /\ Len(results') = Len(results)
            /\ KeptUpTo(start_results)
            /\ \A i \in Range(start_results, Len(results)) :
                    results'[i].result = Err(QueryNotExecutedDetail(MissingCommitMessage))
      ]_vars

\* C8 witness: the stream ended after a RETURN in an open block
C8_Witness ==
    /\ pc = "done"
    /\ skip_remaining
    /\ stmt.k = "Output"
    /\ Len(results) = start_results + 1
    /\ results[Len(results)].result = Err(QueryNotExecutedDetail(MissingCommitMessage))
    /\ txn.state = "cancelled"

\* C9: when the transaction of a BEGIN cannot be opened, no statement of the
\* block is executed or applied; each statement up to the next COMMIT or
\* CANCEL gets exactly one QueryNotExecuted Response, the COMMIT or CANCEL
\* gets none, and the executor is back at top level after it.
C9_OpenFailed ==
    [][ /\ (pc = "top" /\ pc' = "ff_open_failed") =>
            /\ Pulled("Begin")
            /\ results' = results
            /\ txn'.state = "none"
            /\ store' = store /\ opt' = opt /\ ctx' = ctx
        /\ FastForwardRound("ff_open_failed", QueryNotExecuted)
      ]_vars

\* C9 witness: a block whose transaction could not be opened holds one
\* QueryNotExecuted Response, and the statement after its COMMIT or CANCEL
\* was executed
C9_Witness ==
    /\ pc = "top"
    /\ blocks # <<>>
    /\ LET b == blocks[Len(blocks)] IN
        /\ b.state = "none"
        /\ b.end = b.start + 1
        /\ b.last = b.first + 2
        /\ results[b.end].result = Err(QueryNotExecuted)
        /\ Len(results) = b.end + 1
        /\ results[Len(results)].result.ok
        /\ consumed = b.last + 1

\* C10: when cancellation or timeout is detected at a statement boundary
\* inside an open block, the transaction is cancelled, and every Response the
\* block added, before the detection or while fast-forwarding, is an Err of
\* kind QueryCancelled, QueryTimedout, QueryNotExecuted or
\* QueryNotExecutedDetail, up to the moment execute_begin_statement returns.
C10_DoneInBlock ==
    [][ /\ (pc = "block" /\ reason # "None" /\ consumed' = consumed + 1
            /\ stmt'.k # "ParseError") => pc' = "ff_done"
        /\ pc' = "ff_done" =>
            /\ txn'.state = "cancelled"
            /\ \A i \in DOMAIN results' :
                    i > start_results' =>
                        /\ ~results'[i].result.ok
                        /\ results'[i].result.err.kind \in NotExecutedKinds
        /\ (pc = "ff_done" /\ pc' # "ff_done") => KeptUpTo(Len(results))
      ]_vars

\* C10 witness: a timeout was detected after the block had pushed a Response,
\* and a statement was fast-forwarded
C10_Witness ==
    /\ pc = "ff_done"
    /\ done = "Timedout"
    /\ Len(results) = start_results + 2
    /\ results[start_results + 1].result = Err(QueryCancelled)
    /\ results[start_results + 1].time = "elapsed"
    /\ results[start_results + 2].result = Err(QueryTimedout)
    /\ txn.state = "cancelled"

-----------------------------------------------------------------------------
(* C11..C20: errors of single statements, OPTION and USE, ad-hoc transactions *)

\* C11: after the check at a statement boundary inside a block tripped, every
\* Response of the block, those pushed before the check and those of the
\* statements skipped after it, carries the error kind of the reason:
\* QueryTimedout for a passed deadline, QueryCancelled for a set cancel token.
C11_RewriteMatchesReason ==
    pc = "ff_done" =>
        \A i \in Range(start_results, Len(results)) :
            results[i].result = Err(ReasonError(done))

\* C12: outside any transaction block, handling a statement never ends
\* execute_stream with an Err: the statement adds at most one Response, the
\* Responses of the earlier statements stay as they were, and the loop goes
\* on to the next statement.
C12_TopLevelErrorsAreLocal ==
    [][ (pc = "top" /\ consumed' = consumed + 1 /\ stmt'.k # "ParseError") =>
            /\ pc' = "top"
            /\ returned' = NoError
            /\ KeptUpTo(Len(results))
            /\ Len(results') <= Len(results) + 1
      ]_vars

\* This step dispatched an OPTION statement, at top level or in an open block
DispatchedOption ==
    /\ Pulled("Option")
    /\ \/ pc = "top"
       \/ pc = "block" /\ reason = "None" /\ ~skip_remaining

\* C13 as stated: an OPTION statement that is dispatched never adds a
\* Response, at top level or inside a block, whether applied or rejected.
C13_OptionAddsNoResponse ==
    [][ DispatchedOption => results' = results ]_vars

\* C13 amended: an OPTION statement that is applied adds no Response, at top
\* level or inside a block; one that is rejected adds none at top level, and
\* inside a block adds exactly one Response, the permission error with
\* query_type Other.
C13_OptionResponses ==
    [][ DispatchedOption =>
            IF is_allowed(opt) \/ pc = "top"
            THEN results' = results
            ELSE /\ PushedOnly(NotAllowed)
                 /\ results'[Len(results')].query_type = "Other"
                 /\ opt' = opt
      ]_vars

\* C13 witness: an OPTION was rejected inside a block that held a Response,
\* and its error was pushed
C13_Witness ==
    /\ pc = "block"
    /\ stmt.k = "Option"
    /\ ~is_allowed(opt)
    /\ Len(results) = start_results + 2
    /\ results[Len(results)].result = Err(NotAllowed)
    /\ results[start_results + 1].result.ok

\* C14: an OPTION statement is applied only when Edit on Option at Db is
\* allowed: when it is not, the statement fails with the permission error and
\* no option changes; when it is, the statement succeeds and only the option
\* it names changes: IMPORT, FORCE or FUTURES in any letter case, nothing for
\* another name.
C14_Option ==
    [][ DispatchedOption =>
            LET name == stmt'.name
                what == stmt'.what
            IN  IF ~is_allowed(opt)
                THEN /\ opt' = opt
                     /\ returned' = NotAllowed
                     /\ pc' = "failed"
                ELSE /\ returned' = NoError
                     /\ pc' = pc
                     /\ name = <<"i","m","p","o","r","t">> =>
                            opt' = [opt EXCEPT !.import = what]
                     /\ name = <<"F","O","R","C","E">> =>
                            opt' = [opt EXCEPT !.force = IF what THEN "All" ELSE "None"]
                     /\ name = <<"F","u","t","u","r","e","s">> =>
                            opt' = [opt EXCEPT !.futures = IF what THEN "Enabled" ELSE "Never"]
                     /\ name = <<"s","t","r","i","c","t">> => opt' = opt
      ]_vars

\* C14 witness: IMPORT, FORCE and FUTURES were set by statements spelled in
\* lower, upper and mixed case, and an unrecognised option was then accepted
C14_Witness ==
    /\ pc = "top"
    /\ stmt.name = <<"s","t","r","i","c","t">>
    /\ opt.import
    /\ opt.force = "All"
    /\ opt.futures = "Never"

\* This step executed a USE statement, at top level or in an open block
DispatchedUse ==
    /\ Pulled("Use")
    /\ reason = "None"
    /\ pc = "top" \/ (pc = "block" /\ ~skip_remaining)

\* C15: USE sets the namespace and the database it names, in the Options and
\* in the session value of the Context alike, leaves the one it does not name
\* and everything else unchanged, and yields a None Response; when the
\* Context is shared it fails with the unreachable-state error and changes
\* neither the Options nor the Context.
C15_Use ==
    [][ DispatchedUse =>
            LET ns == IF stmt'.ns # "" THEN stmt'.ns ELSE opt.ns
                db == IF stmt'.db # "" THEN stmt'.db ELSE opt.db
                sns == IF stmt'.ns # "" THEN stmt'.ns ELSE ctx.session.ns
                sdb == IF stmt'.db # "" THEN stmt'.db ELSE ctx.session.db
                out == results'[Len(results')].result
            IN  /\ Len(results') = Len(results) + 1
                /\ KeptUpTo(Len(results))
                /\ \/ /\ out = Ok(ValueNone)
                      /\ opt' = [opt EXCEPT !.ns = ns, !.db = db]
                      /\ ctx' = [ctx EXCEPT !.session = [ns |-> sns, db |-> sdb]]
                   \/ /\ out = Err(Unreachable)
                      /\ opt' = opt
                      /\ ctx' = ctx
      ]_vars

\* C15 witness: after USE NS and USE DB, each naming one of the two, the
\* Options and the session hold both
C15_Witness ==
    /\ pc = "top"
    /\ stmt.k = "Use" /\ stmt.ns = "" /\ stmt.db = "OTHER_DB"
    /\ opt.ns = "OTHER_NS" /\ opt.db = "OTHER_DB"
    /\ ctx.session = [ns |-> "OTHER_NS", db |-> "OTHER_DB"]
    /\ Len(results) = 2
    /\ \A i \in 1..2 : results[i].result = Ok(ValueNone)

\* Transaction t received call c
HasCall(t, c) == \E i \in DOMAIN t.calls : t.calls[i] = c

\* This step ran a plan in an ad-hoc transaction
RanAdhoc ==
    /\ pc = "top"
    /\ reason = "None"
    /\ consumed' = consumed + 1
    /\ stmt'.k \in PlanKinds
    /\ adhoc'.state # "none"

\* C16: in an ad-hoc writable transaction whose plan succeeded, when
\* complete_changes fails or commit fails, the transaction is cancelled and
\* the statement's result is QueryNotExecutedDetail with the storage message.
C16_AdhocStorageFailure ==
    [][ (RanAdhoc /\ stmt'.writeable /\ plan_res'.t \in {"Ok", "Return"}) =>
            /\ HasCall(adhoc', "complete_changes_err") =>
                    /\ HasCall(adhoc', "cancel")
                    /\ adhoc'.state = "cancelled"
                    /\ PushedOnly(QueryNotExecutedDetail(CompleteChangesMessage))
            /\ HasCall(adhoc', "commit_err") =>
                    /\ HasCall(adhoc', "cancel")
                    /\ adhoc'.state = "cancelled"
                    /\ PushedOnly(QueryNotExecutedDetail(CommitMessage))
      ]_vars

\* C17: a transaction opened for a plan that is not writeable is never
\* committed: complete_changes and commit are not called on it and nothing
\* becomes visible; when the plan ends with Ok(v) or Return(v), the
\* transaction is cancelled and v is the statement's result.
C17_ReadOnlyNeverCommitted ==
    [][ (RanAdhoc /\ ~stmt'.writeable) =>
            /\ ~adhoc'.write
            /\ \A c \in {"complete_changes", "complete_changes_err", "commit", "commit_err"} :
                    ~HasCall(adhoc', c)
            /\ adhoc'.state # "committed"
            /\ store' = store
            /\ (plan_res'.t \in {"Ok", "Return"} /\ reason' = "None" /\ stmt'.k # "Set") =>
                    /\ adhoc'.calls = <<"cancel">>
                    /\ adhoc'.state = "cancelled"
                    /\ results' = Append(results,
                                         Response("elapsed", Ok(plan_res'.val),
                                                  query_type_of(stmt')))
      ]_vars

\* C17 witness: a plan that is not writeable ended with Return(v) as the
\* second statement of the stream; its transaction was cancelled and v is
\* its result
C17_Witness ==
    /\ pc = "top"
    /\ consumed = 2
    /\ stmt.k = "Data" /\ ~stmt.writeable
    /\ plan_res = FlowReturn(2)
    /\ adhoc.calls = <<"cancel">>
    /\ adhoc.state = "cancelled"
    /\ Len(results) = 2
    /\ results[2].result = Ok(2)

\* This step ran a plan in the transaction of an open block
RanInBlock ==
    /\ pc = "block"
    /\ reason = "None"
    /\ ~skip_remaining
    /\ consumed' = consumed + 1
    /\ stmt'.k \in PlanKinds
    /\ pc' # "done"

\* C18: when the computation of a statement ends with Break or Continue, in
\* an ad-hoc transaction or in an open block, the statement's Response is
\* never a success, and it is InvalidControlFlow unless the Context was found
\* done after the computation.
C18_InvalidControlFlow ==
    [][ ((RanAdhoc \/ RanInBlock) /\ plan_res'.t \in {"Break", "Continue"}) =>
            /\ results' # <<>>
            /\ ~results'[Len(results')].result.ok
            /\ reason' = "None" =>
                    results'[Len(results')] =
                        Response("elapsed", Err(InvalidControlFlow), query_type_of(stmt'))
      ]_vars

\* C18 witness: a statement of a block ended with Continue after the block
\* had pushed a Response, and its Response is InvalidControlFlow
C18_Witness ==
    /\ pc = "block"
    /\ plan_res = FlowContinue
    /\ stmt.k = "Data"
    /\ Len(results) = start_results + 2
    /\ results[start_results + 1].result.ok
    /\ results[Len(results)].result = Err(InvalidControlFlow)

\* C19: when the Context is found timed out or cancelled after the
\* computation of a plan, the statement's result is QueryTimedout or
\* QueryCancelled, matching the reason, whatever the computation ended with,
\* and the ad-hoc transaction is cancelled and never committed; a bare
\* statement that starts when the Context is already done fails with the
\* error of the reason, opens no transaction and executes nothing.
C19_DoneAroundPlan ==
    [][ /\ (RanAdhoc /\ reason' # "None") =>
            /\ PushedOnly(ReasonError(reason'))
            /\ adhoc'.state = "cancelled"
            /\ ~HasCall(adhoc', "commit") /\ ~HasCall(adhoc', "complete_changes")
            /\ store' = store
        /\ (pc = "top" /\ reason # "None" /\ consumed' = consumed + 1
            /\ stmt'.k \in PlanKinds \cup {"Use"}) =>
            /\ PushedOnly(ReasonError(reason))
            /\ adhoc'.state = "none"
            /\ store' = store /\ opt' = opt /\ ctx' = ctx
      ]_vars

\* C19 witness: the computation of a writeable plan ended with Ok, the
\* deadline had passed by then: the Response is QueryTimedout, the
\* transaction is cancelled and its mutation is not visible
C19_Witness ==
    /\ pc = "top"
    /\ reason = "Timedout"
    /\ plan_res = FlowOk(2)
    /\ consumed = 2
    /\ stmt.k = "Data" /\ stmt.writeable
    /\ Len(results) = 2
    /\ results[1].result.ok
    /\ results[2].result = Err(QueryTimedout)
    /\ adhoc.state = "cancelled"
    /\ adhoc.writes = {2}
    /\ 2 \notin store

\* C20: when the stream yields a parse error, at top level, inside an open
\* block or inside a fast-forward loop, execute_stream ends with Ok and the
\* Responses produced so far followed by one Response holding that error; no
\* later item is pulled; the transaction of a block open at that moment is
\* cancelled, and nothing of it becomes visible.
C20_ParseError ==
    [][ /\ Pulled("ParseError") =>
            /\ results' = Append(results,
                                 Response("ZERO", Err(ParseErrorAt(consumed')), "Other"))
            /\ pc' = "done"
            /\ returned' = NoError
            /\ store' = store
            /\ pc = "block" => txn'.state = "cancelled" /\ HasCall(txn', "cancel")
            /\ pc # "top" => txn'.state \in {"cancelled", "none"}
        /\ pc = "done" => consumed' = consumed /\ results' = results
      ]_vars

\* C20 witness: a parse error arrived in an open block that had pushed a
\* Response; it is the last Response and the transaction is cancelled
C20_Witness ==
    /\ pc = "done"
    /\ stmt.k = "ParseError"
    /\ blocks # <<>>
    /\ blocks[Len(blocks)].state = "cancelled"
    /\ blocks[Len(blocks)].last = consumed
    /\ txn.calls = <<"cancel">>
    /\ Len(results) = start_results + 2
    /\ results[start_results + 1].result.ok
    /\ results[Len(results)].result = Err(ParseErrorAt(consumed))

-----------------------------------------------------------------------------
(* C21..C23: the results vector as a whole *)

\* The Ok Responses that carry the value of their statement appear in the
\* order of the statements, and the ranges of the blocks follow one another
ResultsInOrder ==
    /\ \A i, j \in DOMAIN results :
          (i < j /\ results[i].result.ok /\ results[j].result.ok
           /\ results[i].result.val # ValueNone /\ results[j].result.val # ValueNone) =>
              results[i].result.val < results[j].result.val
    /\ \A b \in DOMAIN blocks :
          /\ blocks[b].start <= Len(results)
          /\ blocks[b].last # 0 => blocks[b].start <= blocks[b].end
                                   /\ blocks[b].end <= Len(results)
    /\ \A a, b \in DOMAIN blocks : a < b => blocks[a].end <= blocks[b].start

\* C21: Responses appear in the order of their statements; outside a block a
\* step only appends; the Responses of a block lie in one range that starts
\* at the length the vector had at its BEGIN, and a step inside the block
\* changes or removes Responses of that range only.
C21_OrderAndRange ==
    /\ []ResultsInOrder
    /\ [][ /\ pc = "top" => KeptUpTo(Len(results))
           /\ pc \notin {"top", "done", "failed"} =>
                /\ KeptUpTo(blocks[Len(blocks)].start)
                /\ Len(results') >= blocks[Len(blocks)].start
           /\ pc = "block" => start_results = blocks[Len(blocks)].start
         ]_vars

\* C21 witness: a bare statement succeeded before a block that pushed two
\* Responses and was cancelled; its Response is still the value it computed
C21_Witness ==
    /\ pc = "top"
    /\ Len(blocks) = 1
    /\ blocks[1].start = 1
    /\ blocks[1].end = 3
    /\ blocks[1].state = "cancelled"
    /\ results[1].result = Ok(1)
    /\ \A i \in 2..3 : ~results[i].result.ok

\* Streams made of BEGIN, COMMIT and a writing data statement (CREATE a:1):
\* the second of two identical CREATEs is a computation that ends in an error
CreateItems == {Stmt("Begin"), Stmt("Commit"), [Stmt("Data") EXCEPT !.writeable = TRUE]}

\* execute_stream is called with skip_success_results either way
InitCreate == InitWith(CreateItems, RootAuths, BOOLEAN)

NextCreate ==
    \/ trip
    \/ top_end
    \/ top_begin
    \/ top_statement
    \/ ff_open_failed
    \/ ff_done
    \/ ff_nested
    \/ ff_error
    \/ block_end
    \/ block_done
    \/ block_skip
    \/ block_begin
    \/ block_commit
    \/ block_unplanned
    \/ block_statement

SpecCreate == InitCreate /\ [][NextCreate]_vars

\* execute_stream has returned from the stream BEGIN; CREATE; CREATE; COMMIT
\* in which the first CREATE was computed and the computation of the second
\* ended in an error, nothing else failing
DuplicateCreateReturned ==
    /\ pc = "top"
    /\ consumed = 4
    /\ Len(blocks) = 1
    /\ blocks[1].first = 1
    /\ blocks[1].last = 4
    /\ stmt = Stmt("Commit")
    /\ plan_res = FlowErr(ThrownAt(3))
    /\ reason = "None"

\* C22 as stated: the stream BEGIN; CREATE a:1; CREATE a:1; COMMIT, whose
\* second CREATE fails, leaves three Responses.
C22_ThreeResponses ==
    DuplicateCreateReturned => Len(results) = 3

\* C22: the stream BEGIN; CREATE a:1; CREATE a:1; COMMIT, whose second CREATE
\* fails, leaves two Responses, QueryNotExecuted for the first CREATE and the
\* error of the second; the COMMIT adds none, the transaction is cancelled
\* and no row is stored.
C22_TwoResponses ==
    DuplicateCreateReturned =>
        /\ Len(results) = 2
        /\ results[1].result = Err(QueryNotExecuted)
        /\ results[2].result = Err(ThrownAt(3))
        /\ txn.state = "cancelled"
        /\ store = {}

\* C22 witness: that stream has been consumed up to its COMMIT
C22_Witness ==
    /\ DuplicateCreateReturned
    /\ Len(results) = 2
    /\ results[2].result = Err(ThrownAt(3))
    /\ blocks[1].state = "cancelled"

\* C23: when skip_success_results is set, the vector execute_stream returns
\* holds no successful Response, whether its statement ran outside or inside
\* a transaction block.
C23_NoSuccessKept ==
    (pc = "done" /\ skip_success_results) =>
        \A i \in DOMAIN results : ~results[i].result.ok

\* The part of C23 about statements outside blocks: with the flag set, a
\* top-level step never adds a successful Response
C23_NoSuccessKeptAtTopLevel ==
    [][ (pc = "top" /\ skip_success_results) =>
            /\ KeptUpTo(Len(results))
            /\ \A i \in DOMAIN results' : i > Len(results) => ~results'[i].result.ok
      ]_vars

-----------------------------------------------------------------------------
(* Iterator: the push-down decision *)

\* The variants of Iterable
IterableKinds ==
    {"Value", "Defer", "Yield", "Thing", "Edges", "Table", "Range",
     "Mergeable", "Relatable", "Index"}

\* The IteratorRef values the planner hands out
IteratorRefs == {1, 2}

Iterable(kind, irf) == [kind |-> kind, irf |-> irf]

\* qp.get_query_executor(t) and exe.is_iterator_condition(irf, cond)
is_iterator_condition(p, irf) == p.executor /\ irf \in p.iterator_condition

\* qp.is_order(irf)
is_order(p, irf) == irf \in p.order

\* A variant of check_set_start_limit that accepts any single iterable once
\* the statement has no WHERE
check_without_order(it, p, s) ==
    IF s.group THEN FALSE
    ELSE IF Len(it.entries) # 1 THEN FALSE
    ELSE IF s.cond
    THEN /\ it.entries[1].kind = "Index"
         /\ p.present
         /\ is_iterator_condition(p, it.entries[1].irf)
    ELSE TRUE

\* fn check_set_start_limit(&self, ctx, stm) -> bool
check_set_start_limit(it, p, s) ==
    IF s.group THEN FALSE
    ELSE IF Len(it.entries) # 1 THEN FALSE
    ELSE IF s.cond
    THEN /\ it.entries[1].kind = "Index"
         /\ p.present
         /\ is_iterator_condition(p, it.entries[1].irf)
    ELSE IF ~s.order THEN TRUE
    ELSE /\ it.entries[1].kind = "Index"
         /\ p.present
         /\ is_order(p, it.entries[1].irf)

\* self.start.unwrap_or(0)
unwrap_or_0(o) == IF o = None THEN 0 ELSE o

\* A variant of compute_start_limit that skips at the storage level whatever
\* the permissions are
compute_skips_always(it, p, s, is_specific_permission) ==
    IF check_set_start_limit(it, p, s)
    THEN [it EXCEPT !.cancel_on_limit = IF it.limit # None THEN it.limit ELSE @,
                    !.start_skip = IF unwrap_or_0(it.start) > 0 THEN it.start ELSE @]
    ELSE it

\* fn compute_start_limit(&mut self, ctx, stm, is_specific_permission)
compute_start_limit(it, p, s, is_specific_permission) ==
    IF check_set_start_limit(it, p, s)
    THEN [it EXCEPT !.cancel_on_limit = IF it.limit # None THEN it.limit ELSE @,
                    !.start_skip = IF ~is_specific_permission /\ unwrap_or_0(it.start) > 0
                                   THEN it.start ELSE @]
    ELSE it

\* The `sp` of Iterator::output: qp.is_any_specific_permission(), false
\* without a query planner
is_any_specific_permission(p) == p.present /\ p.specific

\* Iterator::iterate up to its loop: compute_start_limit, and the entries
\* are taken out of the Iterator.  Iterator::output calls it for the main
\* iteration once the planner has no stage left that is not the last.
iterate_compute ==
    /\ ipc = "iterate"
    /\ scan.pass = 1 => qp.stages = 0
    /\ iter' = [compute_start_limit(iter, qp, stm, is_any_specific_permission(qp))
                    EXCEPT !.entries = <<>>]
    /\ scan' = [scan EXCEPT !.pushdown = IF scan.pass = 1
                                         THEN check_set_start_limit(iter, qp, stm) ELSE @]
    /\ ipc' = "scan"
    /\ UNCHANGED <<notifVars, valueVars, execVars, stm, qp, output, steps>>

\* The executor while a statement is inside the iterator
ExecutorIdle ==
    /\ pc = "top"
    /\ consumed = 0
    /\ stmt = NoStmt
    /\ results = <<>>
    /\ opt = [import |-> FALSE, force |-> "None", futures |-> "Disabled",
              ns |-> "NS", db |-> "DB", sender |-> FALSE,
              auth |-> CHOOSE a \in RootAuths : a.role = "Owner"]
    /\ ctx = [session |-> [ns |-> "NS", db |-> "DB"], x |-> ValueNone, notifications |-> FALSE]
    /\ reason = "None"
    /\ txn = NoTransaction
    /\ adhoc = NoTransaction
    /\ store = {}
    /\ start_results = 0
    /\ skip_remaining = FALSE
    /\ done = "None"
    /\ skip_success_results = FALSE
    /\ returned = NoError
    /\ blocks = <<>>
    /\ source = {}
    /\ faults = 0
    /\ bare = 0
    /\ plan_res = NoFlow

\* Bounds of the inputs of the push-down decision
MaxEntries == 2
MaxLimit == 2
MaxStart == 1

\* Option<u32> values up to n
Options(n) == {None} \cup 0..n

\* The iterables a statement's targets are ingested as
Iterables ==
    {Iterable("Table", 0), Iterable("Thing", 0)}
    \cup {Iterable("Index", r) : r \in IteratorRefs}

\* Sequences of at most n elements of S
SeqUpTo(S, n) == UNION {[1..k -> S] : k \in 0..n}

\* What a query planner can answer
Planners ==
    {NoPlanner}
    \cup {[present |-> TRUE, executor |-> e, iterator_condition |-> c, order |-> o,
           specific |-> sp, permission |-> "Full",
           adds |-> <<Iterable("Table", 0)>>, stages |-> 0] :
            e \in BOOLEAN, c \in SUBSET IteratorRefs, o \in SUBSET IteratorRefs,
            sp \in BOOLEAN}

\* Iterator::iterate is entered with any entries, any LIMIT and START already
\* evaluated, for a statement with any of GROUP BY, WHERE, ORDER BY
InitPushDown ==
    /\ ExecutorIdle
    /\ ValueIdle
    /\ NotifyIdle
    /\ \E es \in SeqUpTo(Iterables, MaxEntries), l \in Options(MaxLimit), st \in Options(MaxStart) :
          iter = [IteratorNew EXCEPT !.entries = es, !.limit = l, !.start = st]
    /\ \E g \in BOOLEAN, c \in BOOLEAN, o \in BOOLEAN :
          stm = [NoStatement EXCEPT !.group = g, !.cond = c, !.order = o, !.select = TRUE]
    /\ qp \in Planners
    /\ ipc = "iterate"
    /\ scan = NoScan
    /\ output = NoOutput
    /\ steps = <<>>

NextPushDown == iterate_compute

SpecPushDown == InitPushDown /\ [][NextPushDown]_vars

\* The single iterable is an Index and the planner reports that it handles
\* the WHERE condition
IndexHandlesCond ==
    /\ Len(iter.entries) = 1
    /\ iter.entries[1].kind = "Index"
    /\ qp.present /\ qp.executor
    /\ iter.entries[1].irf \in qp.iterator_condition

\* The single iterable is an Index and the planner reports that its order
\* matches the ORDER BY
IndexHandlesOrder ==
    /\ Len(iter.entries) = 1
    /\ iter.entries[1].kind = "Index"
    /\ qp.present
    /\ iter.entries[1].irf \in qp.order

\* C24: for a statement with WHERE, check_set_start_limit answers true only
\* for exactly one iterable that is an Index of which the planner reports
\* that it handles the WHERE condition and any ORDER BY of the statement.
C24_WhereNeedsIndex ==
    (ipc = "iterate" /\ stm.cond /\ check_set_start_limit(iter, qp, stm)) =>
        /\ IndexHandlesCond
        /\ stm.order => IndexHandlesOrder

\* The part of C24 that leaves ORDER BY aside: with WHERE, the answer is true
\* only for a single Index that handles the condition, and a WHERE the index
\* does not handle never sets start_skip or cancel_on_limit
C24_UnhandledWhereDisables ==
    [][ (ipc = "iterate" /\ stm.cond) =>
            /\ check_set_start_limit(iter, qp, stm) => IndexHandlesCond
            /\ ~IndexHandlesCond =>
                    /\ iter'.start_skip = None
                    /\ iter'.cancel_on_limit = None
      ]_vars

\* C25: without WHERE, check_set_start_limit answers false with GROUP BY or
\* with a number of iterables other than one; otherwise true without ORDER
\* BY, and with ORDER BY true exactly when the single iterable is an Index
\* whose order the planner reports as matching.
C25_WithoutWhere ==
    (ipc = "iterate" /\ ~stm.cond) =>
        LET r == check_set_start_limit(iter, qp, stm) IN
        /\ (stm.group \/ Len(iter.entries) # 1) => ~r
        /\ (~stm.group /\ Len(iter.entries) = 1 /\ ~stm.order) => r
        /\ (~stm.group /\ Len(iter.entries) = 1 /\ stm.order) => (r <=> IndexHandlesOrder)

\* C25 witness: an ORDER BY without WHERE over a single Index in matching
\* order has had its LIMIT pushed down
C25_Witness ==
    /\ ipc = "scan"
    /\ ~stm.cond /\ stm.order /\ ~stm.group
    /\ scan.pushdown
    /\ iter.limit = 2
    /\ iter.cancel_on_limit = 2

\* C26: compute_start_limit changes cancel_on_limit and start_skip only when
\* check_set_start_limit answers true; then cancel_on_limit becomes LIMIT if
\* there is one, and start_skip becomes START only if START > 0 and no
\* specific permission applies; with a specific permission it stays unset.
C26_ComputeStartLimit ==
    [][ ipc = "iterate" =>
            LET r == check_set_start_limit(iter, qp, stm)
                sp == is_any_specific_permission(qp)
            IN
            /\ ~r => /\ iter'.cancel_on_limit = iter.cancel_on_limit
                     /\ iter'.start_skip = iter.start_skip
            /\ r => /\ iter'.cancel_on_limit = iter.limit
                    /\ iter'.start_skip # None =>
                            /\ iter'.start_skip = iter.start
                            /\ iter.start > 0
                            /\ ~sp
                    /\ sp => iter'.start_skip = None
                    /\ (~sp /\ iter.start # None /\ iter.start > 0) =>
                            iter'.start_skip = iter.start
      ]_vars

\* C26 witness: START 1 LIMIT 2 pushed down without a specific permission
C26_Witness ==
    /\ ipc = "scan"
    /\ iter.start = 1
    /\ iter.limit = 2
    /\ iter.start_skip = 1
    /\ iter.cancel_on_limit = 2
    /\ ~is_any_specific_permission(qp)

-----------------------------------------------------------------------------
(* Iterator::output: iteration, per-record results and post-processing *)

\* Bounds of a scan: the records the iterables hold and their sort keys
MaxRecords == 3
MaxKey == 2

\* A record of the storage: its id, the value ORDER BY sorts on, what
\* Document::process makes of it ("Ok", "Ignore" or "Error") and the length
\* of the array at the SPLIT path (0 when the value there is no array)
Record(id, key, res, parts) == [id |-> id, key |-> key, res |-> res, parts |-> parts]

\* The error Document::process raises for the record
RecordError(rec) == Error("Record", "", rec.id)

\* The value Document::process computes for the record
Row(rec) == [id |-> rec.id, key |-> rec.key, part |-> 0, parts |-> rec.parts, fetched |-> FALSE]

\* A variant of result that records an error and leaves the iterator running
result_keeps_running(it, rec) ==
    CASE rec.res = "Ignore" -> it
      [] rec.res = "Error" -> [it EXCEPT !.error = RecordError(rec)]
      [] OTHER ->
            LET pushed == [it EXCEPT !.results.rows = Append(@, Row(rec))] IN
            IF pushed.cancel_on_limit # None
               /\ Len(pushed.results.rows) = pushed.cancel_on_limit
            THEN [pushed EXCEPT !.run = TRUE]
            ELSE pushed

\* async fn result(&mut self, ..., res: Result<Value, IgnoreError>), res being
\* what Document::process made of the record
result(it, rec) ==
    CASE rec.res = "Ignore" -> it
      [] rec.res = "Error" -> [it EXCEPT !.error = RecordError(rec), !.run = TRUE]
      [] OTHER ->
            LET pushed == [it EXCEPT !.results.rows = Append(@, Row(rec))] IN
            IF pushed.cancel_on_limit # None
               /\ Len(pushed.results.rows) = pushed.cancel_on_limit
            THEN [pushed EXCEPT !.run = TRUE]
            ELSE pushed

\* Iterator::skippable
skippable(it) == IF it.start_skip = None THEN 0 ELSE it.start_skip

\* Iterator::skipped
skipped(it, n) == IF it.start_skip = None THEN it ELSE [it EXCEPT !.start_skip = @ - n]

Min(a, b) == IF a < b THEN a ELSE b

\* Dropping the first n elements of a sequence
Drop(sq, n) == SubSeq(sq, n + 1, Len(sq))

\* Results::sort: a stable sort on the key
RECURSIVE SortFrom(_, _)
SortFrom(rows, k) ==
    IF k > MaxKey THEN <<>>
    ELSE SelectSeq(rows, LAMBDA r : r.key = k) \o SortFrom(rows, k + 1)

sort(rows) == SortFrom(rows, 0)

\* Results::start_limit(start_skip, start, limit): START less what the
\* storage already skipped, then LIMIT
start_limit(rows, skip, start, limit) ==
    LET s == IF skip # None THEN skip ELSE unwrap_or_0(start)
        rest == Drop(rows, Min(s, Len(rows)))
    IN  IF limit = None THEN rest ELSE SubSeq(rest, 1, Min(limit, Len(rest)))

\* output_split: one row per element of the array at the path, the row itself
\* when there is no array
RECURSIVE split(_)
split(rows) ==
    IF rows = <<>> THEN <<>>
    ELSE LET r == Head(rows) IN
         (IF r.parts = 0 THEN <<r>>
          ELSE [i \in 1..r.parts |-> [r EXCEPT !.part = i]])
         \o split(Tail(rows))

\* Groups::output: one row per group, the groups in key order
RECURSIVE GroupsFrom(_, _)
GroupsFrom(rows, k) ==
    IF k > MaxKey THEN <<>>
    ELSE (IF \E i \in DOMAIN rows : rows[i].key = k
          THEN <<[id |-> 0, key |-> k, part |-> 0, parts |-> 0, fetched |-> FALSE]>>
          ELSE <<>>)
         \o GroupsFrom(rows, k + 1)

\* output_fetch: every row has the records at the fetch idioms inlined
fetch(rows) == [i \in DOMAIN rows |-> [rows[i] EXCEPT !.fetched = TRUE]]

\* Iterator::output up to the iteration: a new canceller, setup_limit,
\* setup_start (LIMIT and START evaluate to the numbers the statement holds)
\* and results.prepare
output_setup ==
    /\ ipc = "output"
    /\ iter' = [iter EXCEPT !.run = FALSE,
                            !.limit = IF @ = None THEN stm.limit ELSE @,
                            !.start = IF stm.start # None THEN stm.start ELSE @,
                            !.results = [shape |-> IF stm.group THEN "Groups" ELSE "Memory",
                                         rows |-> <<>>]]
    /\ ipc' = "iterate"
    /\ UNCHANGED <<notifVars, valueVars, execVars, stm, qp, scan, output, steps>>

\* v.iterate begins for the next iterable: the scan skips the records the
\* Iterator allows it to skip and confirms their number
scan_entry ==
    /\ ipc = "scan"
    /\ scan.recs # <<>>
    /\ ~scan.started
    /\ LET n == Min(skippable(iter), Len(scan.recs[1])) IN
        /\ iter' = skipped(iter, n)
        /\ scan' = [scan EXCEPT !.started = TRUE, !.recs[1] = Drop(@, n)]
    /\ UNCHANGED <<notifVars, valueVars, execVars, stm, qp, ipc, output, steps>>

\* The scan yields its next record while the Context is not done:
\* Iterator::process, that is Document::process and result
scan_record ==
    /\ ipc = "scan"
    /\ scan.recs # <<>>
    /\ scan.started
    /\ scan.recs[1] # <<>>
    /\ ~iter.run
    /\ iter' = result(iter, Head(scan.recs[1]))
    /\ scan' = [scan EXCEPT !.recs[1] = Tail(@)]
    /\ UNCHANGED <<notifVars, valueVars, execVars, stm, qp, ipc, output, steps>>

\* v.iterate returns, at the end of the records or because the Context is
\* done; the loop of iterate breaks if ctx.is_done
scan_entry_end ==
    /\ ipc = "scan"
    /\ scan.recs # <<>>
    /\ scan.started
    /\ scan.recs[1] = <<>> \/ iter.run
    /\ scan' = [scan EXCEPT !.started = FALSE,
                            !.recs = IF iter.run THEN <<>> ELSE Tail(@)]
    /\ UNCHANGED <<notifVars, valueVars, execVars, iter, stm, qp, ipc, output, steps>>

\* The loop of iterate is over
iterate_end ==
    /\ ipc = "scan"
    /\ scan.recs = <<>>
    /\ ipc' = "iterated"
    /\ UNCHANGED <<notifVars, valueVars, execVars, iter, stm, qp, scan, output, steps>>

\* if let Some(e) = self.error.take() { return Err(e) }
output_error ==
    /\ ipc = "iterated"
    /\ scan.pass = 1
    /\ iter.error # NoError
    /\ iter' = [iter EXCEPT !.error = NoError]
    /\ output' = [ok |-> FALSE, rows |-> <<>>, err |-> iter.error]
    /\ ipc' = "returned"
    /\ UNCHANGED <<notifVars, valueVars, execVars, stm, qp, scan, steps>>

\* A variant of output_guaranteed that does not look at the accumulator (line 402)
output_guaranteed_unchecked ==
    /\ ipc = "iterated"
    /\ scan.pass = 1
    /\ iter.error = NoError
    /\ iter.guaranteed # NoIterable
    /\ iter' = [iter EXCEPT !.entries = Append(@, iter.guaranteed), !.guaranteed = NoIterable]
    /\ scan' = [scan EXCEPT !.pass = 2, !.recs = <<<<scan.fallback>>>>, !.started = FALSE]
    /\ ipc' = "iterate"
    /\ UNCHANGED <<notifVars, valueVars, execVars, stm, qp, output, steps>>

\* No results and a guaranteed record is expected: ingest it and iterate again
output_guaranteed ==
    /\ ipc = "iterated"
    /\ scan.pass = 1
    /\ iter.error = NoError
    /\ iter.results.rows = <<>>
    /\ iter.guaranteed # NoIterable
    /\ iter' = [iter EXCEPT !.entries = Append(@, iter.guaranteed), !.guaranteed = NoIterable]
    /\ scan' = [scan EXCEPT !.pass = 2, !.recs = <<<<scan.fallback>>>>, !.started = FALSE]
    /\ ipc' = "iterate"
    /\ UNCHANGED <<notifVars, valueVars, execVars, stm, qp, output, steps>>

\* The iteration is over and output goes on to the post-processing
Iterated ==
    /\ ipc = "iterated"
    /\ \/ scan.pass = 2
       \/ /\ iter.error = NoError
          /\ ~(iter.results.rows = <<>> /\ iter.guaranteed # NoIterable)

\* self.output_split
output_split ==
    /\ Iterated
    /\ iter' = [iter EXCEPT !.results.rows = IF stm.split THEN split(@) ELSE @]
    /\ steps' = Append(steps, "split")
    /\ ipc' = "group"
    /\ UNCHANGED <<notifVars, valueVars, execVars, stm, qp, scan, output>>

\* self.output_group
output_group ==
    /\ ipc = "group"
    /\ iter' = [iter EXCEPT !.results =
                    IF @.shape = "Groups"
                    THEN [shape |-> "Memory", rows |-> GroupsFrom(@.rows, 0)]
                    ELSE @]
    /\ steps' = Append(steps, "group")
    /\ ipc' = "order"
    /\ UNCHANGED <<notifVars, valueVars, execVars, stm, qp, scan, output>>

\* if let Some(orders) = stm.order() { self.results.sort(orders) }
output_order ==
    /\ ipc = "order"
    /\ iter' = [iter EXCEPT !.results.rows = IF stm.order THEN sort(@) ELSE @]
    /\ steps' = Append(steps, "order")
    /\ ipc' = "start_limit"
    /\ UNCHANGED <<notifVars, valueVars, execVars, stm, qp, scan, output>>

\* self.results.start_limit(self.start_skip, self.start, self.limit)
output_start_limit ==
    /\ ipc = "start_limit"
    /\ iter' = [iter EXCEPT !.results.rows =
                    start_limit(@, iter.start_skip, iter.start, iter.limit)]
    /\ steps' = Append(steps, "start_limit")
    /\ ipc' = "fetch"
    /\ UNCHANGED <<notifVars, valueVars, execVars, stm, qp, scan, output>>

\* self.output_fetch
output_fetch ==
    /\ ipc = "fetch"
    /\ iter' = [iter EXCEPT !.results.rows = IF stm.fetch THEN fetch(@) ELSE @]
    /\ steps' = Append(steps, "fetch")
    /\ ipc' = "take"
    /\ UNCHANGED <<notifVars, valueVars, execVars, stm, qp, scan, output>>

\* self.results.take() and Ok(results.into())
output_take ==
    /\ ipc = "take"
    /\ output' = [ok |-> TRUE, rows |-> iter.results.rows, err |-> NoError]
    /\ iter' = [iter EXCEPT !.results.rows = <<>>]
    /\ ipc' = "returned"
    /\ UNCHANGED <<notifVars, valueVars, execVars, stm, qp, scan, steps>>

NextOutput ==
    \/ output_setup
    \/ iterate_compute
    \/ scan_entry
    \/ scan_record
    \/ scan_entry_end
    \/ iterate_end
    \/ output_error
    \/ output_guaranteed
    \/ output_split
    \/ output_group
    \/ output_order
    \/ output_start_limit
    \/ output_fetch
    \/ output_take

\* The scans of at most MaxRecords records that Document::process treats in
\* one of the ways `ress`
Scans(ress) ==
    UNION {{[i \in 1..n |-> Record(i, f[i][1], f[i][2], 0)] :
                f \in [1..n -> (1..MaxKey) \X ress]} : n \in 0..MaxRecords}

\* The records `all` as the iterables `es` hold them: one iterable holds them
\* all, of two the first holds the first record
Held(es, all) ==
    IF Len(es) = 1 THEN <<all>>
    ELSE <<SubSeq(all, 1, Min(1, Len(all))), Drop(all, Min(1, Len(all)))>>

Sorted(all) == \A i, j \in DOMAIN all : i < j => all[i].key <= all[j].key

\* Iterator::output is entered for the statement s with the entries es over
\* the records all, under the planner p; g is the guaranteed Yield and fb the
\* record it produces
OutputCalled(s, p, es, all, g, fb) ==
    /\ ExecutorIdle
    /\ ValueIdle
    /\ NotifyIdle
    /\ iter = [IteratorNew EXCEPT !.entries = es, !.guaranteed = g]
    /\ stm = s
    /\ qp = p
    /\ ipc = "output"
    /\ scan = [NoScan EXCEPT !.recs = Held(es, all), !.all = all, !.fallback = fb]
    /\ output = NoOutput
    /\ steps = <<>>

\* The planners that answer for the IteratorRef 1
PlannersOfOne ==
    {p \in Planners : p = NoPlanner \/ (p.executor /\ p.iterator_condition \subseteq {1}
                                                   /\ p.order \subseteq {1})}

\* SELECT with any of WHERE and ORDER BY, LIMIT and START, over one table, one
\* index or two tables, no record failing. A record is ignored only if it can
\* fail a WHERE that the index does not answer or be denied by a specific
\* permission; an index whose order the planner reports as the ORDER BY
\* yields its records in that order.
InitSelect ==
    \E c \in BOOLEAN, o \in BOOLEAN, l \in Options(MaxLimit), st \in {None, MaxStart},
       p \in PlannersOfOne, all \in Scans({"Ok", "Ignore"}),
       es \in {<<Iterable("Table", 0)>>, <<Iterable("Index", 1)>>,
               <<Iterable("Table", 0), Iterable("Table", 0)>>} :
        LET handled == es = <<Iterable("Index", 1)>> /\ p.present /\ 1 \in p.iterator_condition
            ordered == es = <<Iterable("Index", 1)>> /\ p.present /\ 1 \in p.order
        IN
        /\ (\E i \in DOMAIN all : all[i].res = "Ignore") =>
                ((c /\ ~handled) \/ is_any_specific_permission(p))
        /\ (o /\ ordered) => Sorted(all)
        /\ OutputCalled([NoStatement EXCEPT !.select = TRUE, !.cond = c, !.order = o,
                                            !.limit = l, !.start = st],
                        p, es, all, NoIterable, NoRecord)

\* A statement without clauses, or with a LIMIT, over one or two tables of
\* which any record may fail
InitFailing ==
    \E l \in {None, 1}, all \in Scans({"Ok", "Error"}),
       es \in {<<Iterable("Table", 0)>>, <<Iterable("Table", 0), Iterable("Table", 0)>>} :
        OutputCalled([NoStatement EXCEPT !.select = TRUE, !.limit = l],
                     NoPlanner, es, all, NoIterable, NoRecord)

\* A statement with any of SPLIT, GROUP BY, ORDER BY, FETCH, START and LIMIT,
\* guaranteed or not, over a table that is empty, holds one record that a
\* WHERE drops, holds two records, or holds two records of which the second
\* fails; the guaranteed Yield succeeds or fails
InitClauses ==
    \E sp \in BOOLEAN, g \in BOOLEAN, o \in BOOLEAN, f \in BOOLEAN, gu \in BOOLEAN,
       l \in {None, 1}, st \in {None, MaxStart},
       all \in {<<>>,
                <<Record(1, 1, "Ignore", 0)>>,
                <<Record(1, 2, "Ok", 2), Record(2, 1, "Ok", 0)>>,
                <<Record(1, 2, "Ok", 2), Record(2, 1, "Error", 0)>>},
       fb \in {Record(MaxRecords + 1, 1, "Ok", 0), Record(MaxRecords + 1, 1, "Error", 0)} :
        OutputCalled([NoStatement EXCEPT !.split = sp, !.group = g, !.order = o, !.fetch = f,
                                         !.guaranteed = gu, !.limit = l, !.start = st,
                                         !.cond = (all = <<Record(1, 1, "Ignore", 0)>>)],
                     NoPlanner, <<Iterable("Table", 0)>>, all,
                     IF gu THEN Iterable("Yield", 0) ELSE NoIterable,
                     IF gu THEN fb ELSE NoRecord)

InitOutput == InitSelect \/ InitFailing \/ InitClauses

SpecOutput == InitOutput /\ [][NextOutput]_vars

-----------------------------------------------------------------------------
(* C27..C29: what Iterator::output returns *)

\* The rows of the records Document::process accepts, in scan order
RECURSIVE Accepted(_)
Accepted(recs) ==
    IF recs = <<>> THEN <<>>
    ELSE (IF Head(recs).res = "Ok" THEN <<Row(Head(recs))>> ELSE <<>>) \o Accepted(Tail(recs))

\* The rows of the pipeline with push-down disabled: every record processed,
\* then SPLIT, GROUP BY, ORDER BY, START and LIMIT, FETCH
WithoutPushDown ==
    LET a == Accepted(scan.all)
        b == IF stm.split THEN split(a) ELSE a
        c == IF stm.group THEN GroupsFrom(b, 0) ELSE b
        d == IF stm.order THEN sort(c) ELSE c
        e == start_limit(d, None, stm.start, stm.limit)
    IN  IF stm.fetch THEN fetch(e) ELSE e

\* Iterator::output returned rows for a scan without failing records, the
\* guaranteed Yield not having run
ReturnedRows ==
    /\ ipc = "returned"
    /\ output.ok
    /\ scan.pass = 1
    /\ \A i \in DOMAIN scan.all : scan.all[i].res # "Error"

\* C27: whenever check_set_start_limit answered true, the rows output are the
\* rows, in the same order, of the pipeline with push-down disabled, and they
\* are at most LIMIT.
C27_PushDownRefines ==
    (ReturnedRows /\ scan.pushdown) =>
        /\ output.rows = WithoutPushDown
        /\ stm.limit # None => Len(output.rows) <= stm.limit

\* The part of C27 about the count: never more rows than LIMIT
C27_AtMostLimit ==
    (ipc = "returned" /\ output.ok /\ stm.limit # None) => Len(output.rows) <= stm.limit

\* The pipeline without push-down is what output computes when
\* check_set_start_limit answered false
C27_NoPushDownIsReference ==
    (ReturnedRows /\ ~scan.pushdown) => output.rows = WithoutPushDown

\* Push-down refines the pipeline for a statement without SPLIT, when no
\* specific permission meets a START, and when an index that answers the
\* WHERE also yields the ORDER BY
C27_PushDownRefinesWhenSafe ==
    (/\ ReturnedRows
     /\ scan.pushdown
     /\ ~stm.split
     /\ ~(is_any_specific_permission(qp) /\ unwrap_or_0(stm.start) > 0 /\ stm.limit # None)
     /\ (stm.cond /\ stm.order) => 1 \in qp.order)
        => output.rows = WithoutPushDown

\* The records of the scan that Document::process fails
Failing == {i \in DOMAIN scan.all : scan.all[i].res = "Error"}

PostSteps == <<"split", "group", "order", "start_limit", "fetch">>

IsPrefix(a, b) == Len(a) <= Len(b) /\ a = SubSeq(b, 1, Len(a))

\* C29: the post-processing steps run in the order SPLIT, GROUP BY, ORDER BY,
\* START/LIMIT, FETCH, all of them before rows are returned, and none of them
\* runs once a record error was recorded during iteration: the error is
\* returned instead.
C29_PostProcessing ==
    /\ IsPrefix(steps, PostSteps)
    /\ (ipc = "returned" /\ output.ok) => steps = PostSteps
    /\ (iter.error # NoError \/ output.err # NoError) =>
            /\ steps = <<>>
            /\ ipc = "returned" => ~output.ok

\* The part of C29 that leaves the guaranteed Yield aside: the order of the
\* steps, and no step after an error recorded by the main iteration
C29_OrderAndMainError ==
    /\ IsPrefix(steps, PostSteps)
    /\ (ipc = "returned" /\ output.ok) => steps = PostSteps
    /\ (scan.pass = 1 /\ (iter.error # NoError \/ output.err # NoError)) =>
            /\ steps = <<>>
            /\ ipc = "returned" => ~output.ok /\ output.rows = <<>>

-----------------------------------------------------------------------------
(* Iterator::prepare: from the targets of a statement to iterables *)

SingleOnlyOutput == Error("SingleOnlyOutput", "", 0)

InvalidStatementTarget == Error("InvalidStatementTarget", "", 0)

\* What a prepare method returns: the Iterator as it leaves it, and the error
\* of an Err
Prepared(it, e) == [it |-> it, err |-> e]

\* Iterator::ingest
ingest(it, val) == [it EXCEPT !.entries = Append(@, val)]

\* Iterator::is_limit_one_or_zero
is_limit_one_or_zero(it) == it.limit # None /\ it.limit <= 1

\* planner.add_iterables: the planner appends the iterables it chose
add_iterables(it, p) == [it EXCEPT !.entries = @ \o p.adds]

\* Iterator::prepare_table
prepare_table(it, p, s, v) ==
    IF p.permission = "None" THEN Prepared(it, NoError)
    ELSE IF s.deferable THEN Prepared(ingest(it, Iterable("Yield", 0)), NoError)
    ELSE IF ~s.guaranteed THEN Prepared(add_iterables(it, p), NoError)
    ELSE Prepared(add_iterables([it EXCEPT !.guaranteed = Iterable("Yield", 0)], p), NoError)

\* Iterator::prepare_range
prepare_range(it, p, s, v) ==
    IF p.permission = "None" THEN Prepared(it, NoError)
    ELSE IF s.create THEN Prepared(it, InvalidStatementTarget)
    ELSE Prepared(ingest(it, Iterable("Range", 0)), NoError)

\* Iterator::prepare_thing
prepare_thing(it, p, s, v) ==
    IF v.n = 1 THEN prepare_range(it, p, s, v)
    ELSE IF p.permission = "None" THEN Prepared(it, NoError)
    ELSE Prepared(ingest(it, Iterable(IF s.deferable THEN "Defer" ELSE "Thing", 0)), NoError)

\* A variant of prepare_mock that ingests whatever the limit is
prepare_mock_unchecked(it, s, v) ==
    Prepared([it EXCEPT !.entries =
                @ \o [i \in 1..v.n |-> Iterable(IF s.deferable THEN "Defer" ELSE "Thing", 0)]],
             NoError)

\* Iterator::prepare_mock (the Context is not done while the things are ingested)
prepare_mock(it, s, v) ==
    IF s.only /\ ~is_limit_one_or_zero(it) THEN Prepared(it, SingleOnlyOutput)
    ELSE Prepared([it EXCEPT !.entries =
                    @ \o [i \in 1..v.n |-> Iterable(IF s.deferable THEN "Defer" ELSE "Thing", 0)]],
                  NoError)

\* Iterator::prepare_edges
prepare_edges(it, s, v) ==
    IF s.only /\ ~is_limit_one_or_zero(it) THEN Prepared(it, SingleOnlyOutput)
    ELSE IF s.create THEN Prepared(it, InvalidStatementTarget)
    ELSE Prepared(ingest(it, Iterable("Edges", 0)), NoError)

\* Iterator::prepare_object
prepare_object(it, s, v) ==
    IF v.n = 1
    THEN Prepared(ingest(it, Iterable(IF s.deferable THEN "Defer" ELSE "Thing", 0)), NoError)
    ELSE Prepared(it, InvalidStatementTarget)

\* The match both prepare and the loop of prepare_array dispatch a value on,
\* an Array aside
prepare_value(it, p, s, v) ==
    CASE v.kind = "Mock" -> prepare_mock(it, s, v)
      [] v.kind = "Table" -> prepare_table(it, p, s, v)
      [] v.kind = "Edges" -> prepare_edges(it, s, v)
      [] v.kind = "Object" /\ ~s.select -> prepare_object(it, s, v)
      [] v.kind = "Thing" -> prepare_thing(it, p, s, v)
      [] OTHER -> IF s.select
                  THEN Prepared(ingest(it, Iterable("Value", 0)), NoError)
                  ELSE Prepared(it, InvalidStatementTarget)

\* The loop of prepare_array: the first element that fails ends it
RECURSIVE prepare_elements(_, _, _, _)
prepare_elements(it, p, s, elems) ==
    IF elems = <<>> THEN Prepared(it, NoError)
    ELSE LET r == prepare_value(it, p, s, Head(elems)) IN
         IF r.err # NoError THEN r ELSE prepare_elements(r.it, p, s, Tail(elems))

\* Iterator::prepare_array
prepare_array(it, p, s, v) ==
    IF s.only /\ ~is_limit_one_or_zero(it) THEN Prepared(it, SingleOnlyOutput)
    ELSE prepare_elements(it, p, s, v.elems)

\* Iterator::prepare
prepare(it, p, s, v) ==
    IF v.kind = "Array" THEN prepare_array(it, p, s, v) ELSE prepare_value(it, p, s, v)

\* The statement hands its target to Iterator::prepare
prepare_target ==
    /\ ipc = "prepare"
    /\ LET r == prepare(iter, qp, stm, stm.what) IN
        /\ iter' = r.it
        /\ output' = [ok |-> r.err = NoError, rows |-> <<>>, err |-> r.err]
        /\ ipc' = IF r.err = NoError THEN "prepared" ELSE "failed"
    /\ UNCHANGED <<notifVars, valueVars, execVars, stm, qp, scan, steps>>

\* Bound of a Mock: the number of things it generates
MaxMock == 2

\* The targets that are no Array
PlainTargets ==
    {Target("Table", 0, <<>>), Target("Edges", 0, <<>>), Target("Number", 0, <<>>)}
    \cup {Target("Mock", n, <<>>) : n \in 1..MaxMock}
    \cup {Target(k, n, <<>>) : k \in {"Thing", "Object"}, n \in {0, 1}}

\* The targets: a value, or an Array of one or two values
Targets ==
    PlainTargets
    \cup {Target("Array", 0, <<a>>) : a \in PlainTargets}
    \cup {Target("Array", 0, <<Target("Thing", 0, <<>>), a>>) : a \in PlainTargets}

\* SELECT, CREATE, UPDATE and UPSERT by what the Iterator asks of a Statement
StatementKinds ==
    {[NoStatement EXCEPT !.select = TRUE],
     [NoStatement EXCEPT !.create = TRUE, !.deferable = TRUE],
     NoStatement,
     [NoStatement EXCEPT !.guaranteed = TRUE]}

\* Iterator::prepare is called for one target of a statement, ONLY or not,
\* after setup_limit has evaluated its LIMIT; the planner grants no, a
\* specific or the full permission on a table and chooses one or two iterables
InitPrepare ==
    /\ ExecutorIdle
    /\ ValueIdle
    /\ NotifyIdle
    /\ \E k \in StatementKinds, o \in BOOLEAN, l \in Options(MaxLimit), w \in Targets :
          /\ stm = [k EXCEPT !.only = o, !.limit = l, !.what = w]
          /\ iter = [IteratorNew EXCEPT !.limit = l]
    /\ \E g \in {"None", "Specific", "Full"},
          a \in {<<Iterable("Table", 0)>>, <<Iterable("Index", 1), Iterable("Index", 2)>>} :
          qp = [NoPlanner EXCEPT !.present = TRUE, !.executor = TRUE, !.permission = g,
                                 !.specific = (g = "Specific"), !.adds = a]
    /\ ipc = "prepare"
    /\ scan = NoScan
    /\ output = NoOutput
    /\ steps = <<>>

NextPrepare == prepare_target

SpecPrepare == InitPrepare /\ [][NextPrepare]_vars

\* The kinds of target that can yield more than one record
IsPlural(v) ==
    \/ v.kind \in {"Table", "Array", "Mock", "Edges"}
    \/ v.kind = "Thing" /\ v.n = 1

\* C30: for a statement marked ONLY, preparing a table, a range, an array, a
\* mock or edges succeeds only if the limit is set and at most 1; otherwise
\* it fails with SingleOnlyOutput and ingests nothing.
C30_OnlyNeedsLimitOne ==
    [][ (ipc = "prepare" /\ stm.only /\ IsPlural(stm.what) /\ ~is_limit_one_or_zero(iter)) =>
            /\ ipc' = "failed"
            /\ output'.err = SingleOnlyOutput
            /\ iter' = iter
      ]_vars

\* The part of C30 that the array, mock and edges targets satisfy
C30_OnlyChecked ==
    [][ (/\ ipc = "prepare"
         /\ stm.only
         /\ stm.what.kind \in {"Array", "Mock", "Edges"}
         /\ ~is_limit_one_or_zero(iter)) =>
            /\ ipc' = "failed"
            /\ output'.err = SingleOnlyOutput
            /\ iter' = iter
      ]_vars

-----------------------------------------------------------------------------
(* expr/value/pick.rs: the path-based read of a Value *)

\* The variants of Value the path primitives tell apart: a Number, an Array,
\* an Object, None, and (standing for every other variant) a Strand
Number(n) == [t |-> "Number", n |-> n]
Strand(s) == [t |-> "Strand", s |-> s]
Array(a) == [t |-> "Array", a |-> a]
Object(o) == [t |-> "Object", o |-> o]

\* The variants of Part: Field, Index, All, First, Last, and (standing for
\* every other variant) Flatten
Field(f) == [p |-> "Field", f |-> f]
Index(i) == [p |-> "Index", i |-> i]
All == [p |-> "All"]
First == [p |-> "First"]
Last == [p |-> "Last"]
Flatten == [p |-> "Flatten"]

\* The keys an Object may hold, in the order its map iterates them
ObjectKeys == <<"0", "a">>

\* i.to_string() of Part::Index(i)
to_string(i) == IF i = 0 THEN "0" ELSE IF i = 1 THEN "1" ELSE "2"

\* v.iter() of an Object: its values in the order of their keys
RECURSIVE ValuesFrom(_, _)
ValuesFrom(o, i) ==
    IF i > Len(ObjectKeys) THEN <<>>
    ELSE IF ObjectKeys[i] \in DOMAIN o
         THEN <<o[ObjectKeys[i]]>> \o ValuesFrom(o, i + 1)
         ELSE ValuesFrom(o, i + 1)

iter_values(o) == ValuesFrom(o, 1)

\* Value::pick, were a value that is neither an Object nor an Array returned
\* as it is while parts remain (line 44)
RECURSIVE pick_keeps_leaf(_, _)
pick_keeps_leaf(v, p) ==
    IF p = <<>>
    THEN v
    ELSE LET part == Head(p)
             next == Tail(p)
         IN  CASE v.t = "Object" ->
                    (CASE part.p = "Field" ->
                            IF part.f \in DOMAIN v.o THEN pick_keeps_leaf(v.o[part.f], next) ELSE VNone
                       [] part.p = "Index" ->
                            IF to_string(part.i) \in DOMAIN v.o
                            THEN pick_keeps_leaf(v.o[to_string(part.i)], next)
                            ELSE VNone
                       [] part.p = "All" ->
                            LET vs == iter_values(v.o)
                            IN  Array([i \in DOMAIN vs |-> pick_keeps_leaf(vs[i], next)])
                       [] OTHER -> VNone)
               [] v.t = "Array" ->
                    (CASE part.p = "All" -> Array([i \in DOMAIN v.a |-> pick_keeps_leaf(v.a[i], next)])
                       [] part.p = "First" ->
                            IF v.a # <<>> THEN pick_keeps_leaf(v.a[1], next) ELSE VNone
                       [] part.p = "Last" ->
                            IF v.a # <<>> THEN pick_keeps_leaf(v.a[Len(v.a)], next) ELSE VNone
                       [] part.p = "Index" ->
                            IF part.i + 1 \in DOMAIN v.a THEN pick_keeps_leaf(v.a[part.i + 1], next) ELSE VNone
                       [] OTHER -> Array([i \in DOMAIN v.a |-> pick_keeps_leaf(v.a[i], p)]))
               [] OTHER -> v

\* Value::pick
RECURSIVE pick(_, _)
pick(v, p) ==
    IF p = <<>>
    THEN v
    ELSE LET part == Head(p)
             next == Tail(p)
         IN  CASE v.t = "Object" ->
                    (CASE part.p = "Field" ->
                            IF part.f \in DOMAIN v.o THEN pick(v.o[part.f], next) ELSE VNone
                       [] part.p = "Index" ->
                            IF to_string(part.i) \in DOMAIN v.o
                            THEN pick(v.o[to_string(part.i)], next)
                            ELSE VNone
                       [] part.p = "All" ->
                            LET vs == iter_values(v.o)
                            IN  Array([i \in DOMAIN vs |-> pick(vs[i], next)])
                       [] OTHER -> VNone)
               [] v.t = "Array" ->
                    (CASE part.p = "All" -> Array([i \in DOMAIN v.a |-> pick(v.a[i], next)])
                       [] part.p = "First" ->
                            IF v.a # <<>> THEN pick(v.a[1], next) ELSE VNone
                       [] part.p = "Last" ->
                            IF v.a # <<>> THEN pick(v.a[Len(v.a)], next) ELSE VNone
                       [] part.p = "Index" ->
                            IF part.i + 1 \in DOMAIN v.a THEN pick(v.a[part.i + 1], next) ELSE VNone
                       [] OTHER -> Array([i \in DOMAIN v.a |-> pick(v.a[i], p)]))
               [] OTHER -> VNone

\* A call of pick: self is borrowed shared, the result is a new Value
pick_call ==
    /\ vpc = "ready"
    /\ picked' = pick(self, path)
    /\ vpc' = "picked"
    /\ UNCHANGED <<notifVars, execVars, iterVars, self, path, vals, before>>

\* Arrays hold at most MaxArray elements, paths at most MaxPath parts, and the
\* Numbers are 1..MaxNumber
MaxArray == 2
MaxPath == 3
MaxNumber == 1

\* The Values of the model: leaves, and Arrays and Objects nested twice
Leaves == {VNone, Strand("s")} \cup {Number(n) : n \in 1..MaxNumber}
Nested(S) ==
    S \cup {Array(a) : a \in SeqUpTo(S, MaxArray)}
      \cup {Object(o) : o \in UNION {[K -> S] : K \in SUBSET {"0", "a"}}}
Values == Nested(Nested(Leaves))

Parts == {Field("a"), Index(0), All, First, Last, Flatten}
Paths == SeqUpTo(Parts, MaxPath)

InitPick ==
    /\ ExecutorIdle
    /\ IteratorIdle
    /\ NotifyIdle
    /\ self \in Values
    /\ path \in Paths
    /\ vals = <<>>
    /\ picked = VNone
    /\ vpc = "ready"
    /\ before = self

NextPick == pick_call

SpecPick == InitPick /\ [][NextPick]_vars

-----------------------------------------------------------------------------
(* C31: what pick returns *)

\* The part is answered element by element: All on an Object or an Array, and
\* on an Array every part that is not First, Last or Index
Maps(v, part) ==
    \/ v.t = "Object" /\ part.p = "All"
    \/ v.t = "Array" /\ part.p \notin {"First", "Last", "Index"}

\* The Object or Array holds something at the part
Has(v, part) ==
    \/ v.t = "Object" /\ part.p = "Field" /\ part.f \in DOMAIN v.o
    \/ v.t = "Object" /\ part.p = "Index" /\ to_string(part.i) \in DOMAIN v.o
    \/ v.t = "Array" /\ part.p \in {"First", "Last"} /\ v.a # <<>>
    \/ v.t = "Array" /\ part.p = "Index" /\ part.i < Len(v.a)

\* What the Object or Array holds at the part
Child(v, part) ==
    IF v.t = "Object"
    THEN v.o[IF part.p = "Field" THEN part.f ELSE to_string(part.i)]
    ELSE v.a[IF part.p = "First" THEN 1 ELSE IF part.p = "Last" THEN Len(v.a) ELSE part.i + 1]

\* The elements a mapping part is answered for
Elements(v) == IF v.t = "Object" THEN iter_values(v.o) ELSE v.a

\* Following the path from v, a segment is missing in an Object or an Array,
\* or a value that is neither is reached while segments remain: before any
\* mapping part (MissesDirectly), or anywhere, the elements a mapping part
\* visits included (MissesSomewhere)
RECURSIVE MissesDirectly(_, _)
MissesDirectly(v, p) ==
    IF p = <<>> THEN FALSE
    ELSE IF v.t \notin {"Object", "Array"} THEN TRUE
    ELSE IF Maps(v, Head(p)) THEN FALSE
    ELSE IF ~Has(v, Head(p)) THEN TRUE
    ELSE MissesDirectly(Child(v, Head(p)), Tail(p))

RECURSIVE MissesSomewhere(_, _)
MissesSomewhere(v, p) ==
    IF p = <<>> THEN FALSE
    ELSE IF v.t \notin {"Object", "Array"} THEN TRUE
    ELSE IF Maps(v, Head(p))
         THEN \E i \in DOMAIN Elements(v) :
                  MissesSomewhere(Elements(v)[i], IF Head(p).p = "All" THEN Tail(p) ELSE p)
    ELSE IF ~Has(v, Head(p)) THEN TRUE
    ELSE MissesSomewhere(Child(v, Head(p)), Tail(p))

ValueTags == {"None", "Number", "Strand", "Array", "Object"}

\* C31 as stated: pick returns a Value for every Value and path, leaves self
\* as it was, returns self for the empty path, and returns None whenever a
\* segment is missing or a value that cannot be traversed is reached while
\* segments remain.
C31_MissIsNone ==
    vpc = "picked" =>
        /\ picked.t \in ValueTags
        /\ self = before
        /\ (path = <<>> => picked = self)
        /\ (MissesSomewhere(self, path) => picked = VNone)

\* C31 amended: the same, the miss being met before any part that is answered
\* element by element; past such a part the result is an Array, which holds
\* None for the elements that miss.
C31_DirectMissIsNone ==
    vpc = "picked" =>
        /\ picked.t \in ValueTags
        /\ self = before
        /\ (path = <<>> => picked = self)
        /\ (MissesDirectly(self, path) => picked = VNone)
        /\ (MissesSomewhere(self, path) /\ ~MissesDirectly(self, path) => picked.t = "Array")

\* pick returned None for a path whose second segment is missing in an Object
C31_Witness ==
    /\ vpc = "picked"
    /\ self = Object([k \in {"a"} |-> Object([k2 \in {"0"} |-> Number(1)])])
    /\ path = <<Field("a"), Field("a")>>
    /\ picked = VNone

-----------------------------------------------------------------------------
(* expr/value/inc.rs: the path-based increment of a Value *)

\* Value::base(): the empty Object
base == Object(<<>>)

\* v.insert(k, x) of an Object
insert(o, k, x) == [j \in DOMAIN o \cup {k} |-> IF j = k THEN x ELSE o[j]]

\* Value::put: the value with val stored at the path.  An Object gets a
\* missing (or None) field created, an Array only has its existing elements
\* written, a None becomes an Object, and every other value is left alone.
RECURSIVE put(_, _, _)
put(v, p, val) ==
    IF p = <<>>
    THEN val
    ELSE LET part == Head(p)
             next == Tail(p)
         IN  CASE v.t = "Object" ->
                    (CASE part.p \in {"Field", "Index"} ->
                            LET k == IF part.p = "Field" THEN part.f ELSE to_string(part.i)
                            IN  IF k \in DOMAIN v.o /\ v.o[k].t # "None"
                                THEN Object([v.o EXCEPT ![k] = put(@, next, val)])
                                ELSE Object(insert(v.o, k, put(base, next, val)))
                       [] part.p = "All" ->
                            Object([k \in DOMAIN v.o |-> put(v.o[k], next, val)])
                       [] OTHER -> v)
               [] v.t = "Array" ->
                    (CASE part.p = "All" -> Array([i \in DOMAIN v.a |-> put(v.a[i], next, val)])
                       [] part.p = "First" ->
                            IF v.a # <<>> THEN Array([v.a EXCEPT ![1] = put(@, next, val)]) ELSE v
                       [] part.p = "Last" ->
                            IF v.a # <<>> THEN Array([v.a EXCEPT ![Len(v.a)] = put(@, next, val)])
                            ELSE v
                       [] part.p = "Index" ->
                            IF part.i + 1 \in DOMAIN v.a
                            THEN Array([v.a EXCEPT ![part.i + 1] = put(@, next, val)])
                            ELSE v
                       [] OTHER -> Array([i \in DOMAIN v.a |-> put(v.a[i], p, val)]))
               [] v.t = "None" -> put(base, p, val)
               [] OTHER -> v

\* Value::inc, were the Number at the path replaced by the increment instead
\* of the sum (line 11)
inc_replaces(v, p, val) ==
    LET cur == pick(v, p)
    IN  CASE cur.t = "Number" ->
               IF val.t = "Number" THEN put(v, p, Number(val.n)) ELSE v
          [] cur.t = "Array" ->
               IF val.t = "Array"
               THEN put(v, p, Array(cur.a \o val.a))
               ELSE put(v, p, Array(Append(cur.a, val)))
          [] cur.t = "None" ->
               (CASE val.t = "Number" -> put(v, p, Number(0 + val.n))
                  [] val.t = "Array" -> put(v, p, Array(val.a))
                  [] OTHER -> put(v, p, Array(<<val>>)))
          [] OTHER -> v

\* Value::inc
inc(v, p, val) ==
    LET cur == pick(v, p)
    IN  CASE cur.t = "Number" ->
               IF val.t = "Number" THEN put(v, p, Number(cur.n + val.n)) ELSE v
          [] cur.t = "Array" ->
               IF val.t = "Array"
               THEN put(v, p, Array(cur.a \o val.a))
               ELSE put(v, p, Array(Append(cur.a, val)))
          [] cur.t = "None" ->
               (CASE val.t = "Number" -> put(v, p, Number(0 + val.n))
                  [] val.t = "Array" -> put(v, p, Array(val.a))
                  [] OTHER -> put(v, p, Array(<<val>>)))
          [] OTHER -> v

\* A call of inc with the next of the vals: self is borrowed mutably
inc_call ==
    /\ vpc \in {"ready", "inc"}
    /\ LET n == IF vpc = "ready" THEN 1 ELSE 2
       IN  /\ n <= Len(vals)
           /\ self' = inc(self, path, vals[n])
    /\ vpc' = IF vpc = "ready" THEN "inc" ELSE "inc inc"
    /\ UNCHANGED <<notifVars, execVars, iterVars, path, vals, picked, before>>

\* The vals of the model: one val of each kind, or two Numbers
Operands == {VNone, Strand("s"), Array(<<>>), Array(<<Number(1)>>), base}
                \cup {Number(n) : n \in 1..MaxNumber}
Increments ==
    {<<x>> : x \in Operands} \cup {<<Number(a), Number(b)>> : a, b \in 1..MaxNumber}

InitInc ==
    /\ ExecutorIdle
    /\ IteratorIdle
    /\ NotifyIdle
    /\ self \in Values
    /\ path \in SeqUpTo(Parts, MaxPath - 1)
    /\ vals \in Increments
    /\ picked = VNone
    /\ vpc = "ready"
    /\ before = self

NextInc == inc_call

SpecInc == InitInc /\ [][NextInc]_vars

-----------------------------------------------------------------------------
(* C32..C34: what inc changes *)

\* The key a Field or Index part names in an Object
KeyOf(part) == IF part.p = "Field" THEN part.f ELSE to_string(part.i)

\* new differs from old at the path only
RECURSIVE OnlyAt(_, _, _)
OnlyAt(old, new, p) ==
    IF p = <<>> \/ old = new THEN TRUE
    ELSE IF old.t = "None" THEN OnlyAt(base, new, p)
    ELSE IF old.t = "Object" /\ new.t = "Object"
         THEN IF Head(p).p \in {"Field", "Index"}
              THEN LET k == KeyOf(Head(p))
                   IN  /\ DOMAIN new.o = DOMAIN old.o \cup {k}
                       /\ \A j \in DOMAIN old.o \ {k} : new.o[j] = old.o[j]
                       /\ OnlyAt(IF k \in DOMAIN old.o THEN old.o[k] ELSE VNone, new.o[k], Tail(p))
              ELSE /\ Head(p).p = "All"
                   /\ DOMAIN new.o = DOMAIN old.o
                   /\ \A j \in DOMAIN old.o : OnlyAt(old.o[j], new.o[j], Tail(p))
    ELSE IF old.t = "Array" /\ new.t = "Array" /\ Len(old.a) = Len(new.a)
         THEN IF Head(p).p \in {"First", "Last", "Index"}
              THEN /\ Has(old, Head(p))
                   /\ \A i \in DOMAIN old.a :
                          IF old.a[i] = Child(old, Head(p)) /\ new.a[i] = Child(new, Head(p))
                             /\ (Head(p).p = "First" => i = 1)
                             /\ (Head(p).p = "Last" => i = Len(old.a))
                             /\ (Head(p).p = "Index" => i = Head(p).i + 1)
                          THEN OnlyAt(old.a[i], new.a[i], Tail(p))
                          ELSE new.a[i] = old.a[i]
              ELSE \A i \in DOMAIN old.a :
                       OnlyAt(old.a[i], new.a[i], IF Head(p).p = "All" THEN Tail(p) ELSE p)
    ELSE FALSE

\* Every part of the path is a Field or an Index
OnlyKeys(p) == \A i \in DOMAIN p : p[i].p \in {"Field", "Index"}

\* The path names one place of v, which exists or which put creates: it is
\* followed through existing fields and elements without a part that is
\* answered element by element, and what is missing is missing in an Object
\* (or is None) with only Field and Index parts left
RECURSIVE Settable(_, _)
Settable(v, p) ==
    IF p = <<>> THEN TRUE
    ELSE IF v.t = "None" THEN OnlyKeys(p)
    ELSE IF v.t = "Object" /\ Head(p).p \in {"Field", "Index"}
         THEN IF KeyOf(Head(p)) \in DOMAIN v.o /\ v.o[KeyOf(Head(p))].t # "None"
              THEN Settable(v.o[KeyOf(Head(p))], Tail(p))
              ELSE OnlyKeys(Tail(p))
    ELSE IF v.t = "Array" /\ Head(p).p \in {"First", "Last", "Index"}
         THEN Has(v, Head(p)) /\ Settable(Child(v, Head(p)), Tail(p))
    ELSE FALSE

\* What inc is to leave at the path, for the target it found there and val
Incremented(target, val) ==
    CASE target.t = "Number" /\ val.t = "Number" -> Number(target.n + val.n)
      [] target.t = "Array" /\ val.t = "Array" -> Array(target.a \o val.a)
      [] target.t = "Array" /\ val.t # "Array" -> Array(Append(target.a, val))
      [] target.t = "None" /\ val.t \in {"Number", "Array"} -> val
      [] target.t = "None" /\ val.t \notin {"Number", "Array"} -> Array(<<val>>)
      [] OTHER -> target

\* The combinations of target and val for which inc is to do nothing
NoOp(target, val) ==
    \/ target.t = "Number" /\ val.t # "Number"
    \/ target.t \notin {"Number", "Array", "None"}

\* C32 as stated: after inc(path, val) the value differs from the one before
\* at the path only, where it holds the sum, the extended Array, or val (or
\* [val]) in place of None; for every other combination the whole value is as
\* before.
C32_IncAtPath ==
    vpc = "inc" =>
        LET target == pick(before, path)
        IN  IF NoOp(target, vals[1])
            THEN self = before
            ELSE /\ pick(self, path) = Incremented(target, vals[1])
                 /\ OnlyAt(before, self, path)

\* C32 for the paths that name one place which exists or can be created: there
\* inc behaves as stated.
C32_IncAtSettablePath ==
    vpc = "inc" /\ Settable(before, path) =>
        LET target == pick(before, path)
        IN  IF NoOp(target, vals[1])
            THEN self = before
            ELSE /\ pick(self, path) = Incremented(target, vals[1])
                 /\ OnlyAt(before, self, path)

\* inc appended a Strand to an Array nested in an Object
C32_Witness ==
    /\ vpc = "inc"
    /\ before = Object([k \in {"a"} |-> Array(<<Number(1)>>)])
    /\ path = <<Field("a")>>
    /\ vals = <<Strand("s")>>
    /\ self = Object([k \in {"a"} |-> Array(<<Number(1), Strand("s")>>)])

C34_Appended ==
    vpc = "inc" /\ pick(before, path).t = "Array" /\ vals[1].t # "Array" =>
        LET old == pick(before, path)
            new == pick(self, path)
        IN  /\ new.t = "Array"
            /\ Len(new.a) = Len(old.a) + 1
            /\ new.a[Len(new.a)] = vals[1]
            /\ SubSeq(new.a, 1, Len(old.a)) = old.a
            /\ OnlyAt(before, self, path)

\* C34 for the paths that name one place: there the Array is extended as stated.
C34_AppendedAtOnePlace ==
    vpc = "inc" /\ pick(before, path).t = "Array" /\ vals[1].t # "Array"
                /\ Settable(before, path) =>
        LET old == pick(before, path)
            new == pick(self, path)
        IN  /\ new.t = "Array"
            /\ Len(new.a) = Len(old.a) + 1
            /\ new.a[Len(new.a)] = vals[1]
            /\ SubSeq(new.a, 1, Len(old.a)) = old.a
            /\ OnlyAt(before, self, path)

-----------------------------------------------------------------------------
(* C35: the notification drains *)

\* One turn of the loop of a spawned task: an item is received from the
\* channel and sent to the sink
drain_forward ==
    /\ sink.open
    /\ \E i \in DOMAIN drains :
        /\ drains[i].left # <<>>
        /\ sink' = [sink EXCEPT !.got = Append(@, [d |-> i, n |-> Head(drains[i].left)])]
        /\ drains' = [drains EXCEPT ![i].left = Tail(@)]
    /\ UNCHANGED <<execVars, iterVars, valueVars>>

\* sink.send(x) fails because the sink is closed: the task breaks out of its
\* loop and drops the receiver with what it had left
drain_break ==
    /\ ~sink.open
    /\ \E i \in DOMAIN drains :
        /\ drains[i].left # <<>>
        /\ drains' = [drains EXCEPT ![i].left = <<>>]
    /\ UNCHANGED <<execVars, iterVars, valueVars, sink>>

\* The other side of the sink goes away
sink_close ==
    /\ sink.open
    /\ sink' = [sink EXCEPT !.open = FALSE]
    /\ UNCHANGED <<execVars, iterVars, valueVars, drains>>

\* Streams of BEGIN, COMMIT, CANCEL, a statement that writes and one that reads
NotifyItems ==
    {Stmt("Begin"), Stmt("Commit"), Stmt("Cancel"),
     [Stmt("Data") EXCEPT !.writeable = TRUE], Stmt("Data")}

InitNotify == InitWith(NotifyItems, RootAuths, {FALSE})

NextNotify ==
    \/ trip
    \/ top_end
    \/ top_begin
    \/ top_statement
    \/ ff_open_failed
    \/ ff_done
    \/ ff_nested
    \/ ff_error
    \/ block_end
    \/ block_done
    \/ block_skip
    \/ block_begin
    \/ block_cancel
    \/ block_commit
    \/ block_unplanned
    \/ block_statement
    \/ drain_forward
    \/ drain_break
    \/ sink_close

SpecNotify == InitNotify /\ [][NextNotify]_vars

\* C35: a drain is started for a transaction only when that transaction is
\* writeable and was committed; what reaches the sink was sent in a committed
\* transaction, by a statement whose writes are in the datastore, and the
\* notifications of one transaction reach the sink in the order they were sent.
C35_DrainAfterCommit ==
    /\ \A i \in DOMAIN drains :
        /\ drains[i].of.state = "committed"
        /\ drains[i].of.write
        /\ ctx.notifications
    /\ \A k \in DOMAIN sink.got :
        /\ sink.got[k].n \in store
        /\ sink.got[k].n \in drains[sink.got[k].d].of.writes
    /\ \A j, k \in DOMAIN sink.got :
        j < k /\ sink.got[j].d = sink.got[k].d => sink.got[j].n < sink.got[k].n

\* The two notifications of a committed block have reached the sink
C35_Witness ==
    /\ Len(sink.got) = 2
    /\ sink.got[1].d = sink.got[2].d
    /\ drains[sink.got[1].d].of = txn
    /\ drains[sink.got[1].d].left = <<>>

-----------------------------------------------------------------------------
(* C36, C37 and C40: cancel_on_limit, the guaranteed Yield, the stages *)

\* C36 as stated: while the records are iterated with cancel_on_limit set to
\* L, the accumulator never holds more than L results; L may be 0.
C36_NeverMoreThanLimit ==
    ipc = "scan" /\ iter.cancel_on_limit # None =>
        Len(iter.results.rows) <= iter.cancel_on_limit

\* C36 for L >= 1: the accumulator holds at most L results, and the iterator
\* is cancelled once it holds L.
C36_NeverMoreThanPositiveLimit ==
    ipc = "scan" /\ iter.cancel_on_limit # None /\ iter.cancel_on_limit >= 1 =>
        /\ Len(iter.results.rows) <= iter.cancel_on_limit
        /\ (Len(iter.results.rows) = iter.cancel_on_limit => iter.run)

\* With cancel_on_limit set to 0 the iterator is never cancelled by result
C36_ZeroNeverCancels ==
    ipc = "scan" /\ iter.cancel_on_limit = 0 /\ iter.error = NoError => ~iter.run

\* The stages of output in which records are iterated
Iterating == ipc \in {"iterate", "scan", "iterated"}

\* C37: while the guaranteed Yield is iterated, the main iteration has left
\* neither an error nor a result (the accumulator holds at most the record of
\* the Yield), and the Yield has been taken, so that it is not iterated again;
\* an accumulator that holds a result of the main iteration is never followed
\* by the iteration of the Yield, and after that iteration no other starts.
C37_FallbackOnce ==
    /\ [](scan.pass = 2 /\ Iterating =>
            /\ stm.guaranteed
            /\ iter.guaranteed = NoIterable
            /\ iter.error \in {NoError, RecordError(scan.fallback)}
            /\ Len(iter.results.rows) <= 1
            /\ \A i \in DOMAIN iter.results.rows : iter.results.rows[i].id = scan.fallback.id)
    /\ [][/\ (scan.pass = 1 /\ Iterating /\ iter.results.rows # <<>> => scan'.pass = 1)
          /\ (scan.pass = 1 /\ Iterating /\ iter.error # NoError => scan'.pass = 1)
          /\ (scan.pass = 2 /\ ipc = "iterated" => ipc' \notin {"iterate", "scan"})]_vars

\* The guaranteed Yield has been iterated after a main iteration over a table
\* without records, and its record is in the accumulator
C37_Witness ==
    /\ scan.pass = 2
    /\ ipc = "iterated"
    /\ scan.all = <<>>
    /\ iter.results.rows = <<Row(scan.fallback)>>

-----------------------------------------------------------------------------
(* C38 and C39: what a block consumes, and what becomes of the transactions *)

\* execute_begin_statement is running: the loop of the block or one of its
\* fast-forward loops
InBlock == pc \in {"block", "ff_open_failed", "ff_done", "ff_nested", "ff_error"}

\* The step pulls a statement from the stream
Pulls == consumed' = consumed + 1 /\ stmt' # ParseError

\* The statement the step pulls is one the block gives no Response: the COMMIT or
\* CANCEL that ends it, a statement skipped after RETURN, an OPTION that is
\* applied
Unanswered ==
    \/ IsCancelOrCommit(stmt')
    \/ pc = "block" /\ reason = "None" /\ skip_remaining
    \/ /\ pc = "block" /\ reason = "None" /\ ~skip_remaining
       /\ stmt'.k = "Option"
       /\ execute_option_statement(opt, stmt').result.ok

\* The step leaves one Response for the item it pulls: one more than before,
\* or one after the Responses of the block were removed
Answers == Len(results') \in {Len(results) + 1, start_results + 1}

\* What C38 asks of a step of execute_begin_statement that pulls an item: a
\* COMMIT or CANCEL ends the block and hands the stream back to the top-level
\* loop, nothing else does, and the item gets one Response unless it is one
\* of the three kinds that get none
ConsumesAsBlock ==
    /\ IsCancelOrCommit(stmt') => pc' = "top"
    /\ ~IsCancelOrCommit(stmt') => pc' # "top"
    /\ ~Unanswered => Answers
    /\ Unanswered => Len(results') <= Len(results)

\* C38 as stated: on every path through the block, timeout and cancellation
\* included, execute_begin_statement pulls up to and including the first
\* COMMIT or CANCEL, and answers every item it pulls except an applied
\* OPTION, a statement skipped after RETURN and the closing COMMIT or CANCEL.
C38_BlockConsumes == [][InBlock /\ Pulls => ConsumesAsBlock]_vars

\* C38 for the items pulled while the Context is not done: there the block
\* consumes and answers as stated.
C38_BlockConsumesUnlessDone ==
    [][InBlock /\ Pulls /\ ~(pc = "block" /\ reason # "None") => ConsumesAsBlock]_vars


\* The transaction t is over: never opened, committed or cancelled
Closed(t) == t.state \in {"none", "committed", "cancelled"}

\* No call of execute_begin_statement is running
BlockReturned == pc \in {"top", "done", "failed"}

\* C39: every transaction the executor opens, ad-hoc or for a block, has
\* been committed or cancelled by the time the call that opened it returns,
\* on every path.
C39_ClosedOnReturn ==
    /\ Closed(adhoc)
    /\ BlockReturned => Closed(txn)

\* C39, the paths that leave a transaction neither committed nor cancelled:
\* an ad-hoc plan that ends with Break or Continue, a commit that fails
\* (ad-hoc or of a block), and a statement of a block that has no plan.  On
\* every other path the transaction is over when the call returns.
C39_ClosedOnOtherPaths ==
    [][ /\ RanAdhoc =>
            \/ Closed(adhoc')
            \/ adhoc'.state = "open" /\ plan_res'.t \in {"Continue", "Break"}
            \/ adhoc'.state = "failed" /\ HasCall(adhoc', "commit_err")
                    /\ ~HasCall(adhoc', "cancel")
        /\ (~BlockReturned /\ BlockReturned') =>
            \/ Closed(txn')
            \/ /\ txn'.state = "open"
               /\ stmt'.k \notin {"Begin", "Cancel", "Commit", "Option", "Use", "ParseError"}
               /\ results'[Len(results')].result = Err(PlanErrorAt(consumed'))
            \/ /\ txn'.state = "failed"
               /\ stmt'.k = "Commit"
               /\ HasCall(txn', "commit_err") /\ ~HasCall(txn', "cancel")
      ]_vars

-----------------------------------------------------------------------------
(* Iterator::output: the stages of the query planner that are not the last *)

\* The most stages before the last that the planner answers
MaxStages == 2

\* impl Clone for Iterator
clone(it) ==
    [run |-> it.run, limit |-> it.limit, start |-> it.start,
     start_skip |-> IF it.start_skip = None THEN None ELSE unwrap_or_0(it.start),
     error |-> NoError, results |-> NoResults, entries |-> it.entries,
     guaranteed |-> NoIterable, cancel_on_limit |-> None]

\* Iterator::process on the clone c: result, for an accumulator that is
\* Results::default() and keeps no row
stage_process(c, rec) ==
    IF rec.res = "Ok" /\ c.results.shape = "None"
    THEN [c EXCEPT !.run = @ \/ c.cancel_on_limit = 0]
    ELSE result(c, rec)

\* The scan of one iterable for the clone c, while the Context is not done
RECURSIVE stage_records(_, _)
stage_records(c, recs) ==
    IF recs = <<>> \/ c.run THEN c
    ELSE stage_records(stage_process(c, Head(recs)), Tail(recs))

\* The loop of Iterator::iterate for the clone c over the iterables held
RECURSIVE stage_scan(_, _)
stage_scan(c, held) ==
    IF held = <<>> \/ c.run THEN c
    ELSE LET n == Min(skippable(c), Len(held[1])) IN
         stage_scan(stage_records(skipped(c, n), Drop(held[1], n)), Tail(held))

\* What Document::process makes of the records in a stage that is not the last
StageOutcomes == {"Ok", "Ignore", "Error"}

\* One turn of `while let Some(s) = qp.next_iteration_stage()` for a stage
\* that is not the last: self.clone().iterate(...), the clone being dropped
\* afterwards.  The clone holds a clone of the canceller `run`; whether
\* cancelling it cancels the Context of the Iterator is left open (shared).
\* steps records whether the clone recorded an error.
output_stage ==
    /\ ipc = "iterate"
    /\ scan.pass = 1
    /\ qp.present /\ qp.stages > 0
    /\ \E shared \in BOOLEAN, f \in [1..Len(scan.all) -> StageOutcomes] :
        LET c0 == clone(iter)
            c1 == [compute_start_limit(c0, qp, stm, is_any_specific_permission(qp))
                        EXCEPT !.entries = <<>>]
            held == [e \in DOMAIN scan.recs |->
                        [i \in DOMAIN scan.recs[e] |->
                            [scan.recs[e][i] EXCEPT !.res = f[scan.recs[e][i].id]]]]
            c == stage_scan(c1, held)
        IN  /\ iter' = [iter EXCEPT !.run = IF shared THEN c.run ELSE @]
            /\ steps' = Append(steps, IF c.error # NoError THEN "stage_error" ELSE "stage")
    /\ qp' = [qp EXCEPT !.stages = @ - 1]
    /\ UNCHANGED <<notifVars, valueVars, execVars, stm, ipc, scan, output>>

NextStages ==
    \/ output_setup
    \/ output_stage
    \/ iterate_compute
    \/ scan_entry
    \/ scan_record
    \/ scan_entry_end
    \/ iterate_end
    \/ output_error
    \/ output_guaranteed
    \/ output_split
    \/ output_group
    \/ output_order
    \/ output_start_limit
    \/ output_fetch
    \/ output_take

\* A statement without clauses or with a LIMIT, guaranteed or not, over one
\* or two tables of which any record may fail in the last stage, under a
\* planner that answers one or MaxStages stages before the last
InitStages ==
    \E l \in {None, 1}, all \in Scans({"Ok", "Error"}), n \in 1..MaxStages, gu \in BOOLEAN,
       es \in {<<Iterable("Table", 0)>>, <<Iterable("Table", 0), Iterable("Table", 0)>>} :
        OutputCalled([NoStatement EXCEPT !.select = TRUE, !.limit = l, !.guaranteed = gu],
                     [NoPlanner EXCEPT !.present = TRUE, !.executor = TRUE, !.stages = n],
                     es, all,
                     IF gu THEN Iterable("Yield", 0) ELSE NoIterable,
                     IF gu THEN Record(MaxRecords + 1, 1, "Ok", 0) ELSE NoRecord)

SpecStages == InitStages /\ [][NextStages]_vars

-----------------------------------------------------------------------------
(* C40: an error recorded in any stage is returned *)

\* A clone of the Iterator recorded an error in a stage that is not the last
StageFailed == \E i \in DOMAIN steps : steps[i] = "stage_error"

\* C40: if processing a record records an error during any iteration stage
\* driven by Iterator::output, the stages before the last that run on a
\* clone of the Iterator included, output returns an error instead of a
\* result.
C40_StageErrorReturned ==
    (ipc = "returned" /\ (StageFailed \/ iter.error # NoError \/ output.err # NoError)) =>
        ~output.ok

\* C40, the last stage alone: an error recorded there by the main iteration
\* is what output returns, whatever the stages before it did.
C40_LastStageErrorReturned ==
    [][ (scan.pass = 1 /\ iter.error # NoError) =>
            /\ ipc' \in {"scan", "iterated", "returned"}
            /\ ipc' = "returned" => output' = [ok |-> FALSE, rows |-> <<>>, err |-> iter.error]
      ]_vars

\* An error recorded by the clone of a stage before the last is followed by
\* a result: output returned Ok
C40_StageErrorLost ==
    /\ ipc = "returned"
    /\ StageFailed
    /\ output.ok

====
